---- MODULE Spec2Model ----
(***************************************************************************)
(* A model of the arize-mcp tool server: the tool handlers of              *)
(* tools/models.py, tools/traces.py, tools/analysis.py and                 *)
(* tools/datasets.py together with the REST and GraphQL clients they call. *)
(*                                                                         *)
(* Text is a sequence of atoms.  Where the code looks at single characters *)
(* (the trace-id pattern, upper-casing a span kind) an atom is one         *)
(* character; fixed literals of the code ("context.trace_id = '") and the  *)
(* words of an error message are one atom each.                            *)
(***************************************************************************)
EXTENDS Integers, Sequences, FiniteSets, TLC

VARIABLES
  op,        \* the tool operation that was invoked last ("none" at start)
  args,      \* the arguments of that invocation
  calls,     \* the upstream calls the invocation made, in order
  response,  \* the dict the handler returned (NoResponse if it returned none)
  raised,    \* the exception that left the handler (NoException if none)
  ret,       \* the last application of a pure helper: [fn, arg, val]
  pc,        \* run_experiment: where the handler stands
  client,    \* run_experiment: the OpenAI client it constructed (NoClient if none)
  examples,  \* run_experiment: the dataset examples the upstream runner loaded
  task,      \* run_experiment: each example's task: pending, inflight, done, failed
  sent,      \* run_experiment: the messages of each completion call issued
  outputs,   \* run_experiment: what each finished task returned
  initialized, \* server.py: _initialized
  init_error,  \* server.py: _init_error (None, or the message)
  registered,  \* server.py: the names of the tools registered on mcp
  boot         \* server.py: what the initializing _setup_tools call met

vars ==
  <<op, args, calls, response, raised, ret, pc, client, examples, task, sent, outputs,
    initialized, init_error, registered, boot>>

toolVars == <<op, args, calls, response, raised>>

expVars == <<pc, client, examples, task, sent, outputs>>

srvVars == <<initialized, init_error, registered, boot>>

----------------------------------------------------------------------------
(* Bounds of the model *)

\* Longest caller-supplied trace id that is enumerated character by character.
MaxStrLen == 3

\* Longest caller-supplied span kind that is enumerated character by character.
MaxKindLen == 3

\* How far beyond the pattern's length limit the long identifiers go.
MaxOver == 1

\* Most rows in a table an upstream export hands back.
MaxDfRows == 2

\* Most examples in the dataset an experiment runs over.
MaxExamples == 2

\* Largest concurrency an experiment is called with.
MaxConcurrency == 2

\* Most rows in a results table the report is built from.
MaxRows == 102

\* Most entries in a series the statistics are applied to.
MaxSeriesLen == 5

\* Most distinct messages in a column given to the error grouping.
MaxGroups == 11

\* Most pieces (a placeholder or a literal) in a template given to the
\* prompt formatting.
MaxPieces == 3

----------------------------------------------------------------------------
(* Text helpers *)

Rep(c, n) == [i \in 1..n |-> c]

SeqsUpTo(S, n) == UNION {[1..k -> S] : k \in 0..n}

\* sep.join(parts)
RECURSIVE Join(_, _)
Join(parts, sep) ==
  IF Len(parts) = 0 THEN <<>>
  ELSE IF Len(parts) = 1 THEN parts[1]
  ELSE parts[1] \o sep \o Join(Tail(parts), sep)

\* True iff pat occurs in s as a contiguous run of atoms.
Contains(s, pat) ==
  \E i \in 1..(Len(s) - Len(pat) + 1) : SubSeq(s, i, i + Len(pat) - 1) = pat

----------------------------------------------------------------------------
(* Exceptions and call results *)

\* No pure helper has been applied: `ret` names the helper applied (fn), its
\* argument (arg) and what it returned (val).
NotApplied == [fn |-> "none"]

NoException == [type |-> "None", msg |-> <<>>]

NoResponse == [pending |-> TRUE]

Exc(t, m) == [type |-> t, msg |-> m]

Ok(v) == [ok |-> TRUE, val |-> v, exc |-> NoException]

Fail(e) == [ok |-> FALSE, val |-> <<>>, exc |-> e]

\* `except RuntimeError`: httpx.HTTPStatusError, httpx.TransportError and
\* json's ValueError are not RuntimeErrors.
IsRuntimeError(e) == e.type = "RuntimeError"

\* `except Exception`: every exception an upstream call raises is one.
IsException(e) == e.type # "None"

\* One entry of the call log: the upstream method, its arguments, and what it
\* returned (kept under the method's name) or raised.
Call(name, a, res) ==
  [api |-> name, arg |-> a, ok |-> res.ok,
   val |-> IF res.ok THEN [m \in {name} |-> res.val] ELSE <<>>,
   exc |-> res.exc]

\* What a handler did: the upstream calls, and the dict returned or the
\* exception that propagated to the caller.
Returned(cs, resp) == [calls |-> cs, response |-> resp, raised |-> NoException]

Propagated(cs, e) == [calls |-> cs, response |-> NoResponse, raised |-> e]

----------------------------------------------------------------------------
(* HTTP as the clients see it *)

HttpStatuses == {200, 401, 403, 404, 500}

\* json_data: a JSON body holding the keys the caller reads; json_empty: {};
\* json_errors: a JSON body with an "errors" key; text_devperm: a non-JSON
\* body mentioning "developer permissions"; text_other: any other non-JSON body.
HttpBodies == {"json_data", "json_empty", "json_errors", "text_devperm", "text_other"}

IsJson(b) == b \in {"json_data", "json_empty", "json_errors"}

HttpOutcomes ==
  {[kind |-> "transport", status |-> 0, body |-> "text_other"]}
    \cup {[kind |-> "response", status |-> s, body |-> b] :
            s \in HttpStatuses, b \in HttpBodies}

TransportError == Exc("TransportError", <<"connection", " ", "failed">>)

JSONDecodeError == Exc("ValueError", <<"Expecting value">>)

\* response.raise_for_status(): raises for every non-2xx status.
HTTPStatusError(status) ==
  Exc("HTTPStatusError", <<"HTTP error", " ", ToString(status)>>)

\* The listings the platform can hand back.
Proj1 == [id |-> "proj-1", name |-> "test-project"]
Proj2 == [id |-> "proj-2", name |-> "bloom_prod"]
ProjectLists == {<<>>, <<Proj1>>, <<Proj1, Proj2>>}

(* ArizeRestClient._request, followed by data.get(key, []) in the caller:
   listing is what a json_data body holds under the key. *)
RestRequest(endpoint, http, listing) ==
  IF http.kind = "transport" THEN Fail(TransportError)
  ELSE IF http.status = 401 THEN
    IF ~IsJson(http.body) THEN Fail(JSONDecodeError)
    ELSE Fail(Exc("RuntimeError",
                  <<"Authentication failed: ",
                    IF http.body = "json_data" THEN "token expired" ELSE "Invalid API key">>))
  ELSE IF http.status = 404 THEN
    Fail(Exc("RuntimeError", <<"Not found: ", endpoint>>))
  ELSE IF http.status # 200 THEN Fail(HTTPStatusError(http.status))
  ELSE IF ~IsJson(http.body) THEN Fail(JSONDecodeError)
  ELSE IF http.body = "json_data" THEN Ok(listing)
  ELSE Ok(<<>>)

RestListProjects(http, listing) == RestRequest("/projects", http, listing)

(* ArizeGraphQLClient.query followed by list_models' projection of the
   edges (model_type added to each node). *)
GraphqlQuery(http, data) ==
  IF http.kind = "transport" THEN Fail(TransportError)
  ELSE IF http.status = 403 THEN
    IF http.body = "text_devperm"
    THEN Fail(Exc("RuntimeError", <<"GraphQL API requires developer permissions. ">>))
    ELSE Fail(Exc("RuntimeError", <<"Access forbidden: ", http.body>>))
  ELSE IF http.status # 200 THEN Fail(HTTPStatusError(http.status))
  ELSE IF ~IsJson(http.body) THEN Fail(JSONDecodeError)
  ELSE IF http.body = "json_errors"
    THEN Fail(Exc("RuntimeError", <<"GraphQL error: ", "errors">>))
  ELSE IF http.body = "json_data" THEN Ok(data)
  ELSE Ok(<<>>)

GraphqlListModels(http, listing) ==
  LET r == GraphqlQuery(http, listing) IN
  IF ~r.ok THEN r
  ELSE Ok([i \in 1..Len(r.val) |->
            [id |-> r.val[i].id, name |-> r.val[i].name, model_type |-> "generative"]])

EmptySchema == [span_properties |-> <<>>, llm_evals |-> <<>>, annotations |-> <<>>]

FullSchema ==
  [model_name |-> "test-project", span_properties |-> <<"name">>,
   llm_evals |-> <<"correctness">>, annotations |-> <<>>]

(* get_tracing_schema: a response without the model or its schema gives
   the empty schema. *)
GraphqlGetTracingSchema(http) ==
  LET r == GraphqlQuery(http, FullSchema) IN
  IF ~r.ok THEN r
  ELSE IF http.body = "json_data" THEN r
  ELSE Ok(EmptySchema)

----------------------------------------------------------------------------
(* tools/models.py *)

ListProjectsHint ==
  <<"If you know your project name, you can use export_traces directly with that name as model_id.">>

\* The response when the REST listing and the GraphQL listing both failed,
\* without the message of the REST attempt.
BothFailedResponse_OnlyGraphql(e1, e2) ==
  [error |-> e2.msg, graphql_error |-> e2.msg, hint |-> ListProjectsHint]

\* The response when the REST listing and the GraphQL listing both failed.
BothFailedResponse(e1, e2) ==
  [error |-> e1.msg, graphql_error |-> e2.msg, hint |-> ListProjectsHint]

(* list_projects: REST first; `except RuntimeError` falls back to GraphQL,
   whose every Exception is reported together with the REST message. *)
ListProjectsHandler(rest, gql, listing, models) ==
  LET r1 == RestListProjects(rest, listing)
      c1 == Call("rest.list_projects", rest, r1)
  IN
  IF r1.ok THEN
    Returned(<<c1>>, [projects |-> r1.val, count |-> Len(r1.val)])
  ELSE IF IsRuntimeError(r1.exc) THEN
    LET r2 == GraphqlListModels(gql, models)
        c2 == Call("graphql.list_models", gql, r2)
    IN
    IF r2.ok THEN
      Returned(<<c1, c2>>,
               [projects |-> r2.val, count |-> Len(r2.val),
                note |-> "Retrieved via GraphQL API"])
    ELSE IF IsException(r2.exc) THEN
      Returned(<<c1, c2>>, BothFailedResponse(r1.exc, r2.exc))
    ELSE Propagated(<<c1, c2>>, r2.exc)
  ELSE Propagated(<<c1>>, r1.exc)

GetModelSchemaHint ==
  <<"Use export_traces to see available columns in the trace data.">>

(* get_model_schema: only RuntimeError is caught. *)
GetModelSchemaHandler(gql) ==
  LET r == GraphqlGetTracingSchema(gql)
      c == Call("graphql.get_tracing_schema", gql, r)
  IN
  IF r.ok THEN Returned(<<c>>, r.val)
  ELSE IF IsRuntimeError(r.exc) THEN
    Returned(<<c>>, [error |-> r.exc.msg, hint |-> GetModelSchemaHint])
  ELSE Propagated(<<c>>, r.exc)

----------------------------------------------------------------------------
(* Optional arguments and Python truthiness *)

None == [some |-> FALSE, v |-> <<>>]

Some(s) == [some |-> TRUE, v |-> s]

\* `if x:` for an Optional[str]: None and "" are both false.
Truthy(x) == x.some /\ Len(x.v) > 0

----------------------------------------------------------------------------
(* tools/traces.py: validation *)

LowerLetters ==
  <<"a","b","c","d","e","f","g","h","i","j","k","l","m",
    "n","o","p","q","r","s","t","u","v","w","x","y","z">>

UpperLetters ==
  <<"A","B","C","D","E","F","G","H","I","J","K","L","M",
    "N","O","P","Q","R","S","T","U","V","W","X","Y","Z">>

Digits == {"0","1","2","3","4","5","6","7","8","9"}

UpperChar(c) ==
  IF \E i \in 1..Len(LowerLetters) : LowerLetters[i] = c
  THEN UpperLetters[CHOOSE i \in 1..Len(LowerLetters) : LowerLetters[i] = c]
  ELSE c

\* str.upper()
Upper(s) == [i \in 1..Len(s) |-> UpperChar(s[i])]

VALID_SPAN_KINDS ==
  { <<"L","L","M">>, <<"C","H","A","I","N">>,
    <<"R","E","T","R","I","E","V","E","R">>, <<"T","O","O","L">>,
    <<"E","M","B","E","D","D","I","N","G">>, <<"A","G","E","N","T">> }

\* _validate_span_kind: span_kind.upper() in VALID_SPAN_KINDS
ValidateSpanKind(s) == Upper(s) \in VALID_SPAN_KINDS

\* The character class [a-fA-F0-9-] of TRACE_ID_PATTERN.
TraceIdClass ==
  {"a","b","c","d","e","f","A","B","C","D","E","F","-"} \cup Digits

\* The {1,64} of TRACE_ID_PATTERN.
MaxTraceIdLen == 64

(* TRACE_ID_PATTERN.match(s) for ^[a-fA-F0-9-]{1,64}$: the class repeated k
   times from the start, 1 <= k <= 64, and then `$`, which without
   re.MULTILINE matches at the end of the string and also just before a
   line break that ends the string. *)
TraceIdPatternMatch(s) ==
  \E k \in 1..MaxTraceIdLen :
    /\ k <= Len(s)
    /\ \A i \in 1..k : s[i] \in TraceIdClass
    /\ \/ k = Len(s)
       \/ k = Len(s) - 1 /\ s[Len(s)] = "\n"

\* _validate_trace_id
ValidateTraceId(s) == TraceIdPatternMatch(s)

----------------------------------------------------------------------------
(* Tables handed back by spans.export_to_df *)

SPAN_KIND_COLUMN == "attributes.openinference.span.kind"

\* Cells: a string, a numpy float, a float NaN, None, a pandas Timestamp
\* (by its ISO text).
StrCell(x) == [t |-> "str", v |-> x]
FloatCell(n) == [t |-> "np.float64", v |-> n]
NaNCell == [t |-> "nan", v |-> 0]
NoneCell == [t |-> "None", v |-> 0]
TimestampCell(iso) == [t |-> "pd.Timestamp", v |-> iso]

\* A plain float that is the exact value (num / den), or its square root.
Float(num, den) == [t |-> "float", v |-> num, den |-> den, root |-> 1]

SqrtFloat(num, den) == [t |-> "float", v |-> num, den |-> den, root |-> 2]

KindLLM == <<"L","L","M">>
KindCHAIN == <<"C","H","A","I","N">>

\* Every column an exported span table can have here, in table order.
SpanColumns == <<"context.trace_id", SPAN_KIND_COLUMN, "latency_ms", "start_time">>

\* The column layouts: all columns, no span-kind column, no latency column.
ColumnLayouts ==
  { SpanColumns,
    <<"context.trace_id", "latency_ms">>,
    <<"context.trace_id", SPAN_KIND_COLUMN>> }

Range(f) == {f[i] : i \in DOMAIN f}

SpanRows(cols) ==
  { [c \in Range(cols) |->
       CASE c = "context.trace_id" -> StrCell("trace-1")
         [] c = SPAN_KIND_COLUMN -> StrCell(k)
         [] c = "start_time" -> TimestampCell("2024-01-01T00:00:00+00:00")
         [] OTHER -> l] :
      k \in {KindLLM, KindCHAIN}, l \in {FloatCell(100), FloatCell(50), NaNCell} }

\* pd.DataFrame(): no columns and no rows.
EmptyDf == [columns |-> <<>>, rows |-> <<>>]

ExportTables ==
  {EmptyDf} \cup
  UNION { {[columns |-> cols, rows |-> rs] : rs \in SeqsUpTo(SpanRows(cols), MaxDfRows)} :
          cols \in ColumnLayouts }

\* df.empty
DfEmpty(df) == Len(df.rows) = 0 \/ Len(df.columns) = 0

\* df.tail(n) in the place of df.head(n): the last n rows.
DfHead_Tail(df, n) ==
  LET len == Len(df.rows)
      k == IF n < len THEN n ELSE len
  IN [df EXCEPT !.rows = SubSeq(df.rows, len - k + 1, len)]

\* df.head(n): the first n rows; all but the last -n rows for a negative n.
DfHead(df, n) ==
  LET len == Len(df.rows)
      k == IF n >= 0 THEN (IF n < len THEN n ELSE len)
           ELSE (IF len + n > 0 THEN len + n ELSE 0)
  IN [df EXCEPT !.rows = SubSeq(df.rows, 1, k)]

\* df.where(pd.notnull(df), None): a missing cell becomes None.
NullToNone(cell) == IF cell.t \in {"nan", "None"} THEN NoneCell ELSE cell

\* to_dict(orient="records") on one cell: a numpy float comes out as a plain
\* float; a Timestamp, a string and None come out as they are.
BoxNative(cell) == IF cell.t = "np.float64" THEN Float(cell.v, 1) ELSE cell

\* _df_to_records of tools/traces.py
DfToRecordsTraces(df, limit) ==
  IF DfEmpty(df) THEN <<>>
  ELSE LET h == DfHead(df, limit) IN
       [i \in 1..Len(h.rows) |->
          [c \in DOMAIN h.rows[i] |-> BoxNative(NullToNone(h.rows[i][c]))]]

\* The messages an export can fail with.
ExportErrors ==
  { Exc("FlightUnauthenticatedError", <<"Unauthenticated", ": ", "invalid", " ", "API key">>),
    Exc("ValueError", <<"Project", " ", "Not Found">>),
    Exc("RuntimeError", <<"stream", " ", "closed">>) }

ExportOutcomes ==
  {Ok(df) : df \in ExportTables} \cup {Fail(e) : e \in ExportErrors}

LowerAtom(a) ==
  CASE a = "Unauthenticated" -> "unauthenticated"
    [] a = "API key" -> "api key"
    [] a = "Not Found" -> "not found"
    [] a = "Project" -> "project"
    [] a = "Dataset" -> "dataset"
    [] a = "Authentication" -> "authentication"
    [] OTHER -> a

\* error_msg.lower()
Lower(msg) == [i \in 1..Len(msg) |-> LowerAtom(msg[i])]

\* The arguments of one spans.export_to_df call.
ExportArgs(project, where, columns) ==
  [project_name |-> project, where |-> where, columns |-> columns]

----------------------------------------------------------------------------
(* tools/traces.py: handlers *)

ExportTracesHandler(project, limit, columns, up) ==
  LET c == Call("spans.export_to_df", ExportArgs(project, None, columns), up) IN
  IF up.ok THEN
    Returned(<<c>>,
             [total_rows |-> Len(up.val.rows), columns |-> up.val.columns,
              traces |-> DfToRecordsTraces(up.val, limit)])
  ELSE IF IsException(up.exc) THEN
    LET low == Lower(up.exc.msg) IN
    IF Contains(low, <<"unauthenticated">>) \/ Contains(low, <<"api key">>) THEN
      Returned(<<c>>,
               [error |-> <<"Authentication failed">>, details |-> up.exc.msg,
                hint |-> <<"Please verify your ARIZE_API_KEY is valid and has export permissions.">>])
    ELSE IF Contains(low, <<"not found">>) THEN
      Returned(<<c>>,
               [error |-> <<"Project '", project, "' not found">>, details |-> up.exc.msg,
                hint |-> <<"Check that the project name matches exactly (case-sensitive).">>])
    ELSE Returned(<<c>>, [error |-> up.exc.msg])
  ELSE Propagated(<<c>>, up.exc)

\* f"context.trace_id = '{trace_id}'"
TraceIdCondition(trace_id) == <<"context.trace_id = '">> \o trace_id \o <<"'">>

InvalidTraceIdResponse ==
  [error |-> <<"Invalid trace_id format">>,
   hint |-> <<"Trace IDs should be alphanumeric with optional hyphens (UUID format).">>]

\* get_trace with the export issued before the trace id is looked at.
GetTraceHandler_ExportFirst(project, trace_id, up) ==
  LET c == Call("spans.export_to_df",
                ExportArgs(project, Some(TraceIdCondition(trace_id)), None), up)
  IN
  IF ~ValidateTraceId(trace_id) THEN Returned(<<c>>, InvalidTraceIdResponse)
  ELSE IF up.ok THEN
    LET spans == DfToRecordsTraces(up.val, 1000) IN
    Returned(<<c>>, [trace_id |-> trace_id, span_count |-> Len(spans), spans |-> spans])
  ELSE Returned(<<c>>, [error |-> up.exc.msg])

(* get_trace: the trace id is validated first; only then is the export
   called, with the id inside the predicate. *)
GetTraceHandler(project, trace_id, up) ==
  IF ~ValidateTraceId(trace_id) THEN
    Returned(<<>>, InvalidTraceIdResponse)
  ELSE
    LET c == Call("spans.export_to_df",
                  ExportArgs(project, Some(TraceIdCondition(trace_id)), None), up)
    IN
    IF up.ok THEN
      LET spans == DfToRecordsTraces(up.val, 1000) IN
      Returned(<<c>>, [trace_id |-> trace_id, span_count |-> Len(spans), spans |-> spans])
    ELSE IF IsException(up.exc) THEN Returned(<<c>>, [error |-> up.exc.msg])
    ELSE Propagated(<<c>>, up.exc)

\* f"span_kind = '{span_kind.upper()}'"
SpanKindCondition(span_kind) == <<"span_kind = '">> \o Upper(span_kind) \o <<"'">>

\* The conditions list of filter_spans, in the order the code appends them.
FilterConditions(where, span_kind, has_error) ==
  (IF Truthy(where) THEN <<where.v>> ELSE <<>>)
    \o (IF Truthy(span_kind) THEN <<SpanKindCondition(span_kind.v)>> ELSE <<>>)
    \o (IF has_error = "True" THEN <<(<<"status_code = 'ERROR'">>)>>
        ELSE IF has_error = "False" THEN <<(<<"status_code != 'ERROR'">>)>>
        ELSE <<>>)

\* " AND ".join(conditions) without the test for an empty list.
WhereClause_AlwaysText(conditions) == Some(Join(conditions, <<" AND ">>))

\* " AND ".join(conditions) if conditions else None
WhereClause(conditions) ==
  IF Len(conditions) > 0 THEN Some(Join(conditions, <<" AND ">>)) ELSE None

\* The valid_kinds field of an invalid-span-kind response.
ValidKinds == VALID_SPAN_KINDS

(* filter_spans: a supplied span kind is validated while the conditions are
   built, before the export is called. *)
FilterSpansHandler(project, limit, where, span_kind, has_error, up) ==
  IF Truthy(span_kind) /\ ~ValidateSpanKind(span_kind.v) THEN
    Returned(<<>>,
             [error |-> <<"Invalid span_kind: ">> \o span_kind.v,
              valid_kinds |-> ValidKinds])
  ELSE
    LET clause == WhereClause(FilterConditions(where, span_kind, has_error))
        c == Call("spans.export_to_df", ExportArgs(project, clause, None), up)
    IN
    IF up.ok THEN
      Returned(<<c>>,
               [total_matches |-> Len(up.val.rows), filter_applied |-> clause,
                spans |-> DfToRecordsTraces(up.val, limit)])
    ELSE IF IsException(up.exc) THEN Returned(<<c>>, [error |-> up.exc.msg])
    ELSE Propagated(<<c>>, up.exc)

----------------------------------------------------------------------------
(* tools/analysis.py *)

\* VALID_SPAN_KINDS of tools/analysis.py, its own copy of the set.
VALID_SPAN_KINDS_ANALYSIS ==
  { <<"L","L","M">>, <<"C","H","A","I","N">>,
    <<"R","E","T","R","I","E","V","E","R">>, <<"T","O","O","L">>,
    <<"E","M","B","E","D","D","I","N","G">>, <<"A","G","E","N","T">> }

\* _validate_span_kind of tools/analysis.py without the upper-casing.
ValidateSpanKindAnalysis_AsGiven(s) == s \in VALID_SPAN_KINDS_ANALYSIS

\* _validate_span_kind of tools/analysis.py
ValidateSpanKindAnalysis(s) == Upper(s) \in VALID_SPAN_KINDS_ANALYSIS

HasColumn(df, c) == \E i \in 1..Len(df.columns) : df.columns[i] = c

\* df[df[col] == value]
RECURSIVE SelectRows(_, _, _)
SelectRows(rows, col, value) ==
  IF Len(rows) = 0 THEN <<>>
  ELSE (IF Head(rows)[col] = StrCell(value) THEN <<Head(rows)>> ELSE <<>>)
         \o SelectRows(Tail(rows), col, value)

\* The candidates for the latency column, in the order they are probed.
LatencyColumns == <<"latency_ms", "duration_ms", "attributes.latency_ms">>

\* series.dropna() of a column, as the numbers left.
RECURSIVE DropNa(_, _)
DropNa(rows, col) ==
  IF Len(rows) = 0 THEN <<>>
  ELSE (IF Head(rows)[col].t \in {"nan", "None"} THEN <<>> ELSE <<Head(rows)[col].v>>)
         \o DropNa(Tail(rows), col)

SeqMin(xs) == CHOOSE x \in Range(xs) : \A y \in Range(xs) : x <= y

SeqMax(xs) == CHOOSE x \in Range(xs) : \A y \in Range(xs) : x >= y

RECURSIVE SeqSum(_)
SeqSum(xs) == IF Len(xs) = 0 THEN 0 ELSE Head(xs) + SeqSum(Tail(xs))

RECURSIVE Insert(_, _)
Insert(x, sorted) ==
  IF Len(sorted) = 0 THEN <<x>>
  ELSE IF x <= Head(sorted) THEN <<x>> \o sorted
  ELSE <<Head(sorted)>> \o Insert(x, Tail(sorted))

\* The values in the order they come in.
Sorted_AsGiven(xs) == xs

\* The values in ascending order.
RECURSIVE Sorted(_)
Sorted(xs) == IF Len(xs) = 0 THEN <<>> ELSE Insert(Head(xs), Sorted(Tail(xs)))

\* series.quantile(k / 100), interpolation 'linear': position (n - 1) * q
\* in the sorted values, interpolated between the two neighbours.
Quantile(xs, k) ==
  LET sorted == Sorted(xs)
      pos == (Len(xs) - 1) * k
      lo == (pos \div 100) + 1
      frac == pos % 100
      hi == IF frac = 0 THEN lo ELSE lo + 1
  IN Float(100 * sorted[lo] + frac * (sorted[hi] - sorted[lo]), 100)

\* The entries of a series that are not NaN.
RECURSIVE NotNa(_)
NotNa(series) ==
  IF Len(series) = 0 THEN <<>>
  ELSE (IF Head(series).t \in {"nan", "None"} THEN <<>> ELSE <<Head(series).v>>)
         \o NotNa(Tail(series))

\* series.std(): the sample deviation (ddof = 1) of the entries that are
\* not NaN; NaN when fewer than two are left.
SeriesStd(series) ==
  LET xs == NotNa(series)
      n == Len(xs)
      squares == [i \in 1..n |-> xs[i] * xs[i]]
  IN IF n <= 1 THEN NaNCell
     ELSE SqrtFloat(n * SeqSum(squares) - SeqSum(xs) * SeqSum(xs), n * (n - 1))

\* The deviation as computed, without the guards.
SafeStd_Unguarded(series) == SeriesStd(series)

\* _safe_std(series)
SafeStd(series) ==
  IF Len(series) <= 1 THEN Float(0, 1)
  ELSE IF SeriesStd(series).t = "nan" THEN Float(0, 1)
  ELSE SeriesStd(series)

\* analysis.py's _serialize_value on a float: NaN becomes None.
SerializeFloat(cell) == IF cell.t = "nan" THEN NoneCell ELSE cell

\* The latency_stats of lines 240-251, passed through _serialize_value:
\* on an empty series min, max, mean and the quantiles are NaN and come out
\* as None.
LatencyStats(xs) ==
  LET stat(cell) == SerializeFloat(IF Len(xs) = 0 THEN NaNCell ELSE cell)
      q(k) == stat(IF Len(xs) = 0 THEN NaNCell ELSE Quantile(xs, k))
  IN
  [min_ms |-> stat(Float(IF Len(xs) = 0 THEN 0 ELSE SeqMin(xs), 1)),
   max_ms |-> stat(Float(IF Len(xs) = 0 THEN 0 ELSE SeqMax(xs), 1)),
   mean_ms |-> stat(Float(SeqSum(xs), IF Len(xs) = 0 THEN 1 ELSE Len(xs))),
   median_ms |-> q(50),
   std_ms |-> SerializeFloat(SafeStd([i \in 1..Len(xs) |-> FloatCell(xs[i])])),
   p50_ms |-> q(50), p75_ms |-> q(75), p90_ms |-> q(90), p95_ms |-> q(95),
   p99_ms |-> q(99)]

(* analyze_latency: a supplied span kind is validated before the export;
   the table is then filtered by kind on the client side when it has the
   span-kind column. *)
AnalyzeLatencyHandler(project, days, span_kind, up) ==
  IF Truthy(span_kind) /\ ~ValidateSpanKindAnalysis(span_kind.v) THEN
    Returned(<<>>,
             [error |-> <<"Invalid span_kind: ">> \o span_kind.v,
              valid_kinds |-> ValidKinds])
  ELSE
    LET c == Call("spans.export_to_df", ExportArgs(project, None, None), up) IN
    IF ~up.ok THEN
      IF IsException(up.exc) THEN Returned(<<c>>, [error |-> up.exc.msg])
      ELSE Propagated(<<c>>, up.exc)
    ELSE IF DfEmpty(up.val) THEN
      Returned(<<c>>,
               [span_count |-> 0, time_range_days |-> days,
                message |-> <<"No spans found in the specified time range">>])
    ELSE
      LET filtering == Truthy(span_kind) /\ HasColumn(up.val, SPAN_KIND_COLUMN)
          rows == IF filtering
                  THEN SelectRows(up.val.rows, SPAN_KIND_COLUMN, Upper(span_kind.v))
                  ELSE up.val.rows
          present == {i \in 1..Len(LatencyColumns) : HasColumn(up.val, LatencyColumns[i])}
      IN
      IF filtering /\ Len(rows) = 0 THEN
        Returned(<<c>>,
                 [span_count |-> 0, time_range_days |-> days, span_kind |-> span_kind,
                  message |-> <<"No spans of kind '">> \o Upper(span_kind.v) \o <<"' found">>])
      ELSE IF present = {} THEN
        Returned(<<c>>,
                 [span_count |-> Len(rows), time_range_days |-> days,
                  error |-> <<"No latency column found in data">>,
                  available_columns |-> up.val.columns])
      ELSE
        LET col == LatencyColumns[CHOOSE i \in present : \A j \in present : i <= j] IN
        Returned(<<c>>,
                 [span_count |-> Len(rows), time_range_days |-> days,
                  span_kind |-> span_kind,
                  latency_stats |-> LatencyStats(DropNa(rows, col))])

\* _serialize_value of tools/analysis.py on a scalar: None and NaN become
\* None, a numpy float becomes a float, a Timestamp its isoformat() text,
\* anything else is kept.
SerializeValue(cell) ==
  IF cell.t \in {"nan", "None"} THEN NoneCell
  ELSE IF cell.t = "np.float64" THEN Float(cell.v, 1)
  ELSE IF cell.t = "pd.Timestamp" THEN StrCell(cell.v)
  ELSE cell

\* _df_to_records of tools/analysis.py
DfToRecordsAnalysis(df, limit) ==
  IF DfEmpty(df) THEN <<>>
  ELSE LET h == DfHead(df, limit) IN
       [i \in 1..Len(h.rows) |->
          [c \in DOMAIN h.rows[i] |-> SerializeValue(h.rows[i][c])]]

\* df[col]
Column(df, col) == [i \in 1..Len(df.rows) |-> df.rows[i][col]]

\* The distinct entries of a series that are not missing, in the order in
\* which they first appear (the keys value_counts starts from).
RECURSIVE Uniques(_)
Uniques(series) ==
  IF Len(series) = 0 THEN <<>>
  ELSE LET rest == Uniques(SubSeq(series, 1, Len(series) - 1))
           last == series[Len(series)]
       IN IF last.t \in {"nan", "None"} \/ \E i \in 1..Len(rest) : rest[i] = last
          THEN rest ELSE Append(rest, last)

CountOf(series, cell) == Cardinality({i \in 1..Len(series) : series[i] = cell})

\* result.sort_values(ascending=False) of value_counts: the sort kind is the
\* default, quicksort, which is not stable, so groups of equal count come
\* out in any order.
RECURSIVE CountOrders(_, _)
CountOrders(series, keys) ==
  IF keys = {} THEN {<<>>}
  ELSE LET top == {k \in keys : \A j \in keys : CountOf(series, k) >= CountOf(series, j)}
       IN UNION { {<<k>> \o r : r \in CountOrders(series, keys \ {k})} : k \in top }

\* series.value_counts(): the outcomes it can have, each a list of
\* (key, count) by count descending.
ValueCounts(series) ==
  { [i \in 1..Len(o) |-> [key |-> o[i], count |-> CountOf(series, o[i])]] :
      o \in CountOrders(series, Range(Uniques(series))) }

\* The number of groups analyze_errors reports.
TopPatterns == 10

\* series.head(n)
SeriesHead(s, n) == SubSeq(s, 1, IF n < Len(s) THEN n ELSE Len(s))

\* The error_patterns of lines 146-150 for one outcome of value_counts.
ErrorPatterns(counts) ==
  LET top == SeriesHead(counts, TopPatterns) IN
  [i \in 1..Len(top) |-> [message |-> top[i].key.v, count |-> top[i].count]]

\* The candidates for the error-message column, in the order they are probed.
ErrorColumns == <<"status_message", "exception.message", "attributes.exception.message">>

\* The column the error messages are read from: the series of its cells, or
\* the empty series when the table has none of the candidates.
MessageSeries(df) ==
  LET present == {i \in 1..Len(ErrorColumns) : HasColumn(df, ErrorColumns[i])} IN
  IF present = {} THEN <<>>
  ELSE Column(df, ErrorColumns[CHOOSE i \in present : \A j \in present : i <= j])

ErrorWhere == <<"status_code = 'ERROR'">>

(* analyze_errors; `counts` is the outcome of value_counts on the message
   column. *)
AnalyzeErrorsHandler(project, days, limit, up, counts) ==
  LET c == Call("spans.export_to_df", ExportArgs(project, Some(ErrorWhere), None), up) IN
  IF ~up.ok THEN
    IF IsException(up.exc) THEN Returned(<<c>>, [error |-> up.exc.msg])
    ELSE Propagated(<<c>>, up.exc)
  ELSE IF DfEmpty(up.val) THEN
    Returned(<<c>>,
             [error_count |-> 0, time_range_days |-> days,
              message |-> <<"No errors found in the specified time range">>])
  ELSE
    LET base == [error_count |-> Len(up.val.rows), time_range_days |-> days,
                 sample_errors |-> DfToRecordsAnalysis(up.val, limit)]
    IN
    IF \E i \in 1..Len(ErrorColumns) : HasColumn(up.val, ErrorColumns[i])
    THEN Returned(<<c>>, [error_count |-> base.error_count,
                          time_range_days |-> base.time_range_days,
                          error_patterns |-> ErrorPatterns(counts),
                          sample_errors |-> base.sample_errors])
    ELSE Returned(<<c>>, base)

\* series.nunique(): the number of distinct entries that are not missing.
NUnique(series) == Len(Uniques(series))

\* series.value_counts().to_dict()
CountsDict(series) ==
  [k \in {cell.v : cell \in Range(Uniques(series))} |->
     CountOf(series, CHOOSE cell \in Range(Uniques(series)) : cell.v = k)]

\* The candidates for the token column, in the order they are probed.
TokenColumns ==
  <<"attributes.llm.token_count.total", "attributes.llm.token_count.prompt",
    "llm.token_count.total">>

\* The token_usage of lines 327-331.
TokenUsage(tokens) ==
  [total |-> SeqSum(tokens), mean |-> Float(SeqSum(tokens), Len(tokens)),
   max |-> SeqMax(tokens)]

\* The optional entries of get_trace_statistics' result (lines 302-331):
\* each is there iff its column is.
TraceStatisticsParts(df) ==
  LET present == {i \in 1..Len(TokenColumns) : HasColumn(df, TokenColumns[i])}
      tokens == IF present = {} THEN <<>>
                ELSE DropNa(df.rows,
                            TokenColumns[CHOOSE i \in present : \A j \in present : i <= j])
  IN
  [unique_traces |-> IF HasColumn(df, "context.trace_id")
                     THEN Some(NUnique(Column(df, "context.trace_id"))) ELSE None,
   by_span_kind |-> IF HasColumn(df, SPAN_KIND_COLUMN)
                    THEN Some(CountsDict(Column(df, SPAN_KIND_COLUMN))) ELSE None,
   by_status |-> IF HasColumn(df, "status_code")
                 THEN Some(CountsDict(Column(df, "status_code"))) ELSE None,
   token_usage |-> IF Len(tokens) > 0 THEN Some(TokenUsage(tokens)) ELSE None]

\* A dict with the entries of `parts` that are there added to `base`.
WithParts(base, parts) ==
  LET keys == {k \in DOMAIN parts : parts[k].some} IN
  [k \in DOMAIN base \cup keys |-> IF k \in keys THEN parts[k].v ELSE base[k]]

\* get_trace_statistics without the test of lines 289-294.
GetTraceStatisticsHandler_NoEmptyCheck(project, days, up) ==
  LET c == Call("spans.export_to_df", ExportArgs(project, None, None), up) IN
  IF ~up.ok THEN Returned(<<c>>, [error |-> up.exc.msg])
  ELSE Returned(<<c>>,
                WithParts([total_spans |-> Len(up.val.rows), time_range_days |-> days],
                          TraceStatisticsParts(up.val)))

(* get_trace_statistics *)
GetTraceStatisticsHandler(project, days, up) ==
  LET c == Call("spans.export_to_df", ExportArgs(project, None, None), up) IN
  IF ~up.ok THEN
    IF IsException(up.exc) THEN Returned(<<c>>, [error |-> up.exc.msg])
    ELSE Propagated(<<c>>, up.exc)
  ELSE IF DfEmpty(up.val) THEN
    Returned(<<c>>,
             [total_spans |-> 0, time_range_days |-> days,
              message |-> <<"No spans found in the specified time range">>])
  ELSE
    Returned(<<c>>,
             WithParts([total_spans |-> Len(up.val.rows), time_range_days |-> days],
                       TraceStatisticsParts(up.val)))

----------------------------------------------------------------------------
(* tools/datasets.py: the dataset and experiment lookups *)

\* What a REST endpoint answers, as the handlers use it.
Dataset1 == [id |-> "ds-1", name |-> "test-dataset"]

Example1 == [id |-> "ex-1", input |-> "test input", output |-> "test output"]

Experiment1 == [id |-> "exp-1", name |-> "test-experiment", dataset_id |-> "ds-1"]

Run1 == [id |-> "run-1", example_id |-> "ex-1", output |-> "test output", trace_id |-> "trace-1"]

\* One REST call wrapped by `try ... except Exception as e: {"error": str(e)}`.
RestToolHandler(api, endpoint, http, listing, success) ==
  LET r == RestRequest(endpoint, http, listing)
      c == Call(api, http, r)
  IN
  IF r.ok THEN Returned(<<c>>, success)
  ELSE IF IsException(r.exc) THEN Returned(<<c>>, [error |-> r.exc.msg])
  ELSE Propagated(<<c>>, r.exc)

ListDatasetsHandler(http) ==
  LET listing == IF http.body = "json_data" THEN <<Dataset1>> ELSE <<>> IN
  RestToolHandler("rest.list_datasets", "/datasets", http, listing,
                  [datasets |-> listing, count |-> Len(listing)])

\* get_dataset: the dataset, then its examples; the first failure ends it.
GetDatasetHandler(dataset_id, http1, http2) ==
  LET r1 == RestRequest("/datasets/" \o dataset_id, http1, Dataset1)
      c1 == Call("rest.get_dataset", http1, r1)
      exs == IF http2.body = "json_data" THEN <<Example1>> ELSE <<>>
      r2 == RestRequest("/datasets/" \o dataset_id \o "/examples", http2, exs)
      c2 == Call("rest.list_dataset_examples", http2, r2)
  IN
  IF ~r1.ok THEN
    IF IsException(r1.exc) THEN Returned(<<c1>>, [error |-> r1.exc.msg])
    ELSE Propagated(<<c1>>, r1.exc)
  ELSE IF ~r2.ok THEN
    IF IsException(r2.exc) THEN Returned(<<c1, c2>>, [error |-> r2.exc.msg])
    ELSE Propagated(<<c1, c2>>, r2.exc)
  ELSE Returned(<<c1, c2>>,
                [dataset |-> r1.val, examples |-> r2.val, example_count |-> Len(r2.val)])

CreateDatasetHandler(name, http) ==
  LET created == [id |-> "ds-new", name |-> name]
      r == RestRequest("/datasets", http, created)
      c == Call("rest.create_dataset", http, r)
  IN
  IF r.ok THEN Returned(<<c>>, [success |-> TRUE, dataset |-> r.val])
  ELSE IF IsException(r.exc) THEN Returned(<<c>>, [error |-> r.exc.msg])
  ELSE Propagated(<<c>>, r.exc)

DeleteDatasetHandler(dataset_id, http) ==
  RestToolHandler("rest.delete_dataset", "/datasets/" \o dataset_id, http, <<>>,
                  [success |-> TRUE, deleted_id |-> dataset_id])

ListExperimentsHandler(http) ==
  LET listing == IF http.body = "json_data" THEN <<Experiment1>> ELSE <<>> IN
  RestToolHandler("rest.list_experiments", "/experiments", http, listing,
                  [experiments |-> listing, count |-> Len(listing)])

\* get_experiment: the experiment over REST, then its runs from the SDK.
GetExperimentHandler(experiment_id, http, sdk) ==
  LET r1 == RestRequest("/experiments/" \o experiment_id, http, Experiment1)
      c1 == Call("rest.get_experiment", http, r1)
      c2 == Call("experiments.list_runs", experiment_id, sdk)
  IN
  IF ~r1.ok THEN
    IF IsException(r1.exc) THEN Returned(<<c1>>, [error |-> r1.exc.msg])
    ELSE Propagated(<<c1>>, r1.exc)
  ELSE IF ~sdk.ok THEN
    IF IsException(sdk.exc) THEN Returned(<<c1, c2>>, [error |-> sdk.exc.msg])
    ELSE Propagated(<<c1, c2>>, sdk.exc)
  ELSE Returned(<<c1, c2>>,
                [experiment |-> r1.val, runs |-> sdk.val, run_count |-> Len(sdk.val)])

----------------------------------------------------------------------------
(* tools/datasets.py: the prompt template engine of run_experiment *)

\* Values of a dataset example: text, a mapping (ordered key/value pairs,
\* keys being text), an integer (its digits), None.
StrV(s) == [t |-> "str", s |-> s, kv |-> <<>>]
DictV(kv) == [t |-> "dict", s |-> <<>>, kv |-> kv]
IntV(digits) == [t |-> "int", s |-> digits, kv |-> <<>>]
NoneV == [t |-> "none", s |-> <<>>, kv |-> <<>>]

KV(k, v) == [k |-> k, v |-> v]

HasKey(kv, key) == \E i \in 1..Len(kv) : kv[i].k = key

Lookup(kv, key, default) ==
  IF HasKey(kv, key)
  THEN kv[CHOOSE i \in 1..Len(kv) : kv[i].k = key].v
  ELSE default

\* Python truthiness of a value.
TruthyV(v) ==
  CASE v.t = "none" -> FALSE
    [] v.t = "str" -> Len(v.s) > 0
    [] v.t = "dict" -> Len(v.kv) > 0
    [] OTHER -> v.s # <<"0">>

\* get_value(obj, key): obj[key] or getattr(obj, key, None); a missing key
\* or attribute gives the default, None.
GetValue(example, key) == Lookup(example.fields, key, NoneV)

\* json.dumps(value)
RECURSIVE JsonDumps(_)
JsonDumps(v) ==
  CASE v.t = "none" -> <<"null">>
    [] v.t = "str" -> <<"\"">> \o v.s \o <<"\"">>
    [] v.t = "dict" ->
         <<"{">>
           \o Join([i \in 1..Len(v.kv) |->
                      <<"\"">> \o v.kv[i].k \o <<"\"">> \o <<": ">> \o JsonDumps(v.kv[i].v)],
                   <<", ">>)
           \o <<"}">>
    [] OTHER -> v.s

\* str(value) of a value that is no dict
StrOf(v) ==
  CASE v.t = "none" -> <<"None">>
    [] OTHER -> v.s

\* The text a placeholder is replaced with.
Substitute(v) == IF v.t = "dict" THEN JsonDumps(v) ELSE StrOf(v)

\* context['input'] and context['output']: None becomes {}.
ContextInOut(val) == IF val.t = "none" THEN DictV(<<>>) ELSE val

\* context['metadata']: a falsy value becomes {}.
ContextMetadata(val) == IF TruthyV(val) THEN val ELSE DictV(<<>>)

\* context['id']: str(id_val) if id_val else ''
ContextId(val) == IF TruthyV(val) THEN StrV(Substitute(val)) ELSE StrV(<<>>)

\* context['dataset_row']: dict(example) of a mapping, the dataset_row
\* attribute of an Example object, {} otherwise.
ContextDatasetRow(example) ==
  IF example.backing = "mapping" THEN DictV(example.fields)
  ELSE IF HasKey(example.fields, <<"dataset_row">>) THEN
    (IF TruthyV(GetValue(example, <<"dataset_row">>))
     THEN GetValue(example, <<"dataset_row">>) ELSE DictV(<<>>))
  ELSE DictV(<<>>)

BuildContext(example) ==
  << KV(<<"input">>, ContextInOut(GetValue(example, <<"input">>))),
     KV(<<"output">>, ContextInOut(GetValue(example, <<"output">>))),
     KV(<<"metadata">>, ContextMetadata(GetValue(example, <<"metadata">>))),
     KV(<<"id">>, ContextId(GetValue(example, <<"id">>))),
     KV(<<"dataset_row">>, ContextDatasetRow(example)) >>

\* flat_context: every key, each followed by key.subkey for the entries of
\* a mapping value (one level).
RECURSIVE FlattenContext(_)
FlattenContext(context) ==
  IF Len(context) = 0 THEN <<>>
  ELSE LET e == Head(context) IN
       <<e>>
         \o (IF e.v.t = "dict"
             THEN [j \in 1..Len(e.v.kv) |-> KV(e.k \o <<".">> \o e.v.kv[j].k, e.v.kv[j].v)]
             ELSE <<>>)
         \o FlattenContext(Tail(context))

\* str.replace(old, new): every non-overlapping occurrence, left to right.
RECURSIVE ReplaceAll(_, _, _)
ReplaceAll(s, old, new) ==
  IF Len(s) < Len(old) THEN s
  ELSE IF SubSeq(s, 1, Len(old)) = old
    THEN new \o ReplaceAll(SubSeq(s, Len(old) + 1, Len(s)), old, new)
  ELSE <<Head(s)>> \o ReplaceAll(Tail(s), old, new)

\* The replacement loop: one flat_context entry after the other, each on
\* the result of the one before.
RECURSIVE ReplacePlaceholders(_, _)
ReplacePlaceholders(result, flat) ==
  IF Len(flat) = 0 THEN result
  ELSE LET placeholder == <<"{">> \o Head(flat).k \o <<"}">>
           next == IF Contains(result, placeholder)
                   THEN ReplaceAll(result, placeholder, Substitute(Head(flat).v))
                   ELSE result
       IN ReplacePlaceholders(next, Tail(flat))

\* _format_prompt(template, example)
FormatPrompt(template, example) ==
  ReplacePlaceholders(template, FlattenContext(BuildContext(example)))

----------------------------------------------------------------------------
(* tools/datasets.py: run_experiment *)

\* datasets.py's _serialize_value on one cell: numpy integers and floats
\* become plain numbers, a numpy NaN becomes None, every other value is
\* returned as it is.
SerializeCellDatasets(cell) ==
  CASE cell.t = "np.int64" -> [t |-> "int", v |-> cell.v]
    [] cell.t = "np.float64" -> [t |-> "float", v |-> cell.v]
    [] cell.t = "nan" -> NoneCell
    [] OTHER -> cell

\* _serialize_value(results_df.to_dict(orient="records")): the list and each
\* row dict are walked, every cell is converted.
SerializeRecordsDatasets(rows) ==
  [i \in 1..Len(rows) |-> [c \in DOMAIN rows[i] |-> SerializeCellDatasets(rows[i][c])]]

\* The most rows of the results table the response carries.
ReportCap == 100

\* The report without the cap.
ReportedResults_All(results) == results

\* results[:100] if len(results) > 100 else results
ReportedResults(results) ==
  IF Len(results) > ReportCap THEN SubSeq(results, 1, ReportCap) ELSE results

\* The response of a run that came back: lines 401-418.
ExperimentResponse(dry_run, name, dataset_id, table, experiment) ==
  LET results == SerializeRecordsDatasets(table)
      base == [success |-> TRUE, dry_run |-> dry_run,
               results |-> ReportedResults(results), total_runs |-> Len(results)]
  IN
  IF experiment.some
  THEN base @@ [experiment |-> [id |-> experiment.v, name |-> name, dataset_id |-> dataset_id]]
  ELSE base

\* The `except ImportError` response.
ImportErrorResponse ==
  [error |-> <<"OpenAI package not installed">>, hint |-> <<"Install with: pip install openai">>]

\* The `except Exception` response: a hint for a message about the API key
\* or authentication, a hint for a dataset that was not found.
ExperimentErrorResponse(e) ==
  LET low == Lower(e.msg) IN
  IF Contains(e.msg, <<"API key">>) \/ Contains(low, <<"authentication">>) THEN
    [error |-> e.msg, hint |-> <<"Check that your OpenAI API key is valid">>]
  ELSE IF Contains(low, <<"dataset">>) /\ Contains(low, <<"not found">>) THEN
    [error |-> e.msg, hint |-> <<"Verify the dataset_id exists using list_datasets()">>]
  ELSE [error |-> e.msg]

ApiKeyRequiredResponse ==
  [error |-> <<"API key required">>,
   hint |-> <<"Provide openai_api_key parameter or set OPENAI_API_KEY environment variable. ",
              "Alternatively, use passthrough=True to test prompt formatting without LLM calls.">>]

\* a or b, for two Optional[str]
OrElse(a, b) == IF Truthy(a) THEN a ELSE b

\* The environment value taken before the parameter.
ResolvedApiKey_EnvFirst(a) == OrElse(a.env.OPENAI_API_KEY, a.openai_api_key)

\* resolved_api_key = openai_api_key or os.environ.get("OPENAI_API_KEY")
ResolvedApiKey(a) == OrElse(a.openai_api_key, a.env.OPENAI_API_KEY)

\* resolved_base_url = base_url or os.environ.get("OPENAI_BASE_URL")
ResolvedBaseUrl(a) == OrElse(a.base_url, a.env.OPENAI_BASE_URL)

NoClient == [built |-> FALSE, api_key |-> <<>>, base_url |-> None]

\* OpenAI(**client_kwargs): base_url is passed only when it is truthy.
BuildClient(a) ==
  [built |-> TRUE, api_key |-> ResolvedApiKey(a).v,
   base_url |-> IF Truthy(ResolvedBaseUrl(a)) THEN ResolvedBaseUrl(a) ELSE None]

\* The messages of task's completion call.
TaskMessages(system_prompt, prompt) ==
  (IF Truthy(system_prompt) THEN <<[role |-> "system", content |-> system_prompt.v]>> ELSE <<>>)
    \o <<[role |-> "user", content |-> prompt]>>

\* The keyword arguments of clients.arize.experiments.run.
RunKwargs(a) ==
  [name |-> a.name, dataset_id |-> a.dataset_id, concurrency |-> a.concurrency,
   dry_run |-> a.dry_run, dry_run_count |-> a.dry_run_count]

InFlight == {i \in DOMAIN task : task[i] = "inflight"}

\* `if not passthrough:` before the client is constructed.
NeedsClient_Always(a) == TRUE

NeedsClient(a) == ~a.passthrough

\* What task(example) returns without a completion call: the formatted
\* prompt, in passthrough mode.
TaskOutput(text) == [kind |-> "text", text |-> text, exc |-> NoException]

TaskError(e) == [kind |-> "error", text |-> <<>>, exc |-> e]

NoOutput == [kind |-> "none", text |-> <<>>, exc |-> NoException]

\* An upstream call that has been issued and has not come back.
Pending == [ok |-> FALSE, val |-> <<>>, exc |-> NoException]

\* The results table the upstream runner hands back: one row per example,
\* the task's output or its error.
ResultsTable ==
  [i \in 1..Len(examples) |->
     [example_id |-> [t |-> "np.int64", v |-> i],
      output |-> IF outputs[i].kind = "text" THEN StrCell(outputs[i].text) ELSE NoneCell,
      error |-> IF outputs[i].kind = "error" THEN StrCell(outputs[i].exc.msg) ELSE NaNCell]]

\* An exception leaves the try block re-raised instead of caught.
CatchRun_Reraise(e) == [pc |-> "raised", response |-> NoResponse, raised |-> e]

\* `except Exception as e`: the handler returns the error response.
CatchRun(e) == [pc |-> "done", response |-> ExperimentErrorResponse(e), raised |-> NoException]

----------------------------------------------------------------------------
(* config.py, client.py, server.py: startup *)

\* Most characters in an ARIZE_SPACE_ID value.
MaxSpaceIdLen == 4

StartsWith(s, prefix) ==
  Len(s) >= Len(prefix) /\ SubSeq(s, 1, Len(prefix)) = prefix

\* validate_api_key: the key must start with 'ak-'.
ValidApiKey(v) == StartsWith(v, <<"a", "k", "-">>)

Base64Chars == {"U", "3", "+", "/"}

\* The number of leading characters of v that are base64 characters.
RECURSIVE DataLen(_)
DataLen(v) ==
  IF Len(v) = 0 \/ Head(v) \notin Base64Chars THEN 0 ELSE 1 + DataLen(Tail(v))

\* re.match(r"^[A-Za-z0-9+/]+=*$", v): one or more base64 characters, then
\* only '=' ('$' also matches before a final line break).
SpaceIdPatternMatch(v) ==
  LET n == DataLen(v)
      rest == SubSeq(v, n + 1, Len(v))
      pads == IF Len(rest) > 0 /\ rest[Len(rest)] = "\n"
              THEN SubSeq(rest, 1, Len(rest) - 1) ELSE rest
  IN n >= 1 /\ \A i \in 1..Len(pads) : pads[i] = "="

\* base64.b64decode(v) on a value the pattern matched: it raises on a number
\* of data characters that is 1 more than a multiple of 4, and on padding
\* that is too short.
B64DecodeOk(v) ==
  LET n == DataLen(v)
      p == Cardinality({i \in 1..Len(v) : v[i] = "="})
  IN CASE n % 4 = 0 -> TRUE
       [] n % 4 = 1 -> FALSE
       [] n % 4 = 2 -> p >= 2
       [] OTHER -> p >= 1

\* validate_space_id
ValidSpaceId(v) == SpaceIdPatternMatch(v) /\ B64DecodeOk(v)

ApiKeyProblem(env) ==
  IF ~env.ARIZE_API_KEY.some THEN <<"api_key", "Field required">>
  ELSE IF ~ValidApiKey(env.ARIZE_API_KEY.v)
    THEN <<"api_key", "Value error, ARIZE_API_KEY must start with 'ak-'. ">>
  ELSE <<>>

SpaceIdProblem(env) ==
  IF ~env.ARIZE_SPACE_ID.some THEN <<"space_id", "Field required">>
  ELSE IF ~ValidSpaceId(env.ARIZE_SPACE_ID.v)
    THEN <<"space_id", "Value error, ARIZE_SPACE_ID must be a valid base64 string. ">>
  ELSE <<>>

\* get_config(): ArizeConfig() reads ARIZE_API_KEY and ARIZE_SPACE_ID and
\* raises one ValidationError naming every field that is missing or fails
\* its validator.
GetConfig(env) ==
  LET problems == ApiKeyProblem(env) \o SpaceIdProblem(env) IN
  IF problems = <<>>
  THEN Ok([api_key |-> env.ARIZE_API_KEY.v, space_id |-> env.ARIZE_SPACE_ID.v])
  ELSE Fail(Exc("ValidationError", <<"validation errors for ArizeConfig">> \o problems))

ModelTools == {"list_projects", "get_model_schema"}

TraceTools == {"export_traces", "get_trace", "filter_spans"}

DatasetTools ==
  {"list_datasets", "get_dataset", "create_dataset", "delete_dataset",
   "list_experiments", "get_experiment", "run_experiment"}

AnalysisTools == {"analyze_errors", "analyze_latency", "get_trace_statistics"}

NotBooted == [ran |-> FALSE]

\* The try block of _setup_tools failed: the message is kept, the error
\* tool is registered, the flag is set.
SetupFailed(e) ==
  [initialized |-> TRUE, init_error |-> Some(e.msg), registered |-> {"get_status"},
   raised |-> NoException]

\* _setup_tools() with _initialized false: imports, get_config(),
\* ArizeClients(config), the four register_* calls.
SetupOutcome(env, imports, clients) ==
  IF ~imports.ok THEN SetupFailed(imports.exc)
  ELSE IF ~GetConfig(env).ok THEN SetupFailed(GetConfig(env).exc)
  ELSE IF ~clients.ok THEN SetupFailed(clients.exc)
  ELSE [initialized |-> TRUE, init_error |-> None,
        registered |-> ModelTools \cup TraceTools \cup DatasetTools \cup AnalysisTools,
        raised |-> NoException]

StatusHint ==
  <<"Check your ARIZE_API_KEY and ARIZE_SPACE_ID environment variables.">>

\* get_status(): `if _init_error:` is false for None and for "".
GetStatusResponse(err) ==
  IF Truthy(err)
  THEN [status |-> "error", error |-> err.v, hint |-> StatusHint]
  ELSE [status |-> "ok"]

\* The environments the server starts in.
ApiKeyInputs ==
  {None, Some(<<>>), Some(<<"a", "k", "-", "1">>), Some(<<"s", "k", "-", "1">>),
   Some(<<"a", "k">>)}

SpaceIdInputs ==
  {None} \cup {Some(v) : v \in SeqsUpTo({"U", "=", "!"}, MaxSpaceIdLen)}

ServerEnvs == [ARIZE_API_KEY : ApiKeyInputs, ARIZE_SPACE_ID : SpaceIdInputs]

\* What the imports of _setup_tools may raise.
ImportOutcomes ==
  {Ok(<<>>), Fail(Exc("ImportError", <<"No module named 'arize'">>))}

\* What ArizeClients(config) may raise: the SDK's own errors, one of them
\* without a message.
ClientOutcomes ==
  {Ok(<<>>), Fail(Exc("ValueError", <<"Invalid ", "API key">>)), Fail(Exc("AssertionError", <<>>))}

----------------------------------------------------------------------------
(* The inputs the tools are called with *)

ProjectNames == {"test-project"}

\* Characters of caller-supplied trace ids: hex letter, hyphen, a letter
\* outside the class, a quote, a line break.
TraceIdChars == {"a", "-", "g", "'", "\n"}

\* Long ids around the length limit: a run of one hex digit, alone or
\* followed by one more character.
LongIds ==
  { Rep("a", n) \o tail :
      n \in (MaxTraceIdLen - 1)..(MaxTraceIdLen + MaxOver),
      tail \in {<<>>, <<"\n">>, <<"g">>} }

TraceIdInputs == SeqsUpTo(TraceIdChars, MaxStrLen) \cup LongIds

NamedKinds ==
  { <<"l","l","m">>, <<"t","o","o","l">>, <<"A","g","e","n","t">>, KindCHAIN,
    <<"u","n","k","n","o","w","n">>, <<"I","N","V","A","L","I","D">>,
    <<"l","l","m","'"," ","O","R"," ","'","1","'","=","'","1">> }

\* Caller-supplied span kinds: absent, and text (the empty text included).
SpanKindInputs ==
  {None} \cup {Some(s) : s \in SeqsUpTo({"l", "L", "m"}, MaxKindLen) \cup NamedKinds}

\* Caller-supplied free-text predicates.
WhereInputs ==
  { None, Some(<<>>), Some(<<"attributes.llm.token_count.total > 1000">>),
    Some(<<"name = '", "x", "' OR 1 = 1">>) }

HasErrorInputs == {"None", "True", "False"}

LimitInputs == {1, 100}

DayInputs == {7}

\* Tables the export returns for status_code = 'ERROR': with one of the
\* message columns or with none, each message a text or missing.
ErrorLayouts ==
  { <<"context.trace_id", "status_message", "start_time">>,
    <<"context.trace_id", "exception.message">>,
    <<"context.trace_id">> }

ErrorRows(cols) ==
  { [c \in Range(cols) |->
       CASE c = "context.trace_id" -> StrCell("trace-1")
         [] c = "start_time" -> TimestampCell("2024-01-01T00:00:00+00:00")
         [] OTHER -> m] :
      m \in {StrCell("Rate limit"), StrCell("Timeout"), NaNCell} }

ErrorTables ==
  {EmptyDf} \cup
  UNION { {[columns |-> cols, rows |-> rs] : rs \in SeqsUpTo(ErrorRows(cols), MaxDfRows)} :
          cols \in ErrorLayouts }

ErrorOutcomes ==
  {Ok(df) : df \in ErrorTables} \cup {Fail(e) : e \in ExportErrors}

\* Tables for get_trace_statistics: with every column it reads, or with the
\* status column alone.
StatLayouts ==
  { <<"context.trace_id", SPAN_KIND_COLUMN, "status_code", "attributes.llm.token_count.total">>,
    <<"status_code">> }

StatRows(cols) ==
  { [c \in Range(cols) |->
       CASE c = "context.trace_id" -> StrCell(t)
         [] c = SPAN_KIND_COLUMN -> StrCell(k)
         [] c = "status_code" -> StrCell(st)
         [] OTHER -> n] :
      t \in {"trace-1", "trace-2"}, k \in {KindLLM, KindCHAIN},
      st \in {"OK", "ERROR"}, n \in {FloatCell(10), NaNCell} }

StatTables ==
  {EmptyDf} \cup
  UNION { {[columns |-> cols, rows |-> rs] : rs \in SeqsUpTo(StatRows(cols), MaxDfRows)} :
          cols \in StatLayouts }

StatOutcomes ==
  {Ok(df) : df \in StatTables} \cup {Fail(e) : e \in ExportErrors}

SdkRunsOutcomes ==
  {Ok(<<>>), Ok(<<Run1>>), Fail(Exc("ValueError", <<"Experiment", " ", "Not Found">>))}

\* The process environment run_experiment reads, and whether the openai
\* package can be imported.
ExperimentEnvs ==
  { [OPENAI_API_KEY |-> k, OPENAI_BASE_URL |-> u, openai_installed |-> inst] :
      k \in {None, Some(<<"sk-env">>)},
      u \in {None, Some(<<"https://env.example/v1">>)},
      inst \in BOOLEAN }

PromptTemplates ==
  { <<"Input: ", "{", "input", "}", ", Output: ", "{", "output", "}">>,
    <<"{", "input", ".", "question", "}", " ", "{", "id", "}", "{", "nope", "}">> }

ExampleQ ==
  [backing |-> "mapping",
   fields |-> <<KV(<<"id">>, StrV(<<"ex-1">>)), KV(<<"input">>, StrV(<<"Q">>)),
                KV(<<"output">>, StrV(<<"A">>))>>]

ExampleNested ==
  [backing |-> "attr",
   fields |-> <<KV(<<"input">>, DictV(<<KV(<<"question">>, StrV(<<"Why?">>))>>)),
                KV(<<"output">>, StrV(<<"{", "id", "}">>))>>]

\* The datasets the upstream runner may load.
DatasetInputs == SeqsUpTo({ExampleQ, ExampleNested}, MaxExamples)

RunExperimentInputs ==
  { [dataset_id |-> <<"ds-1">>, name |-> <<"exp">>, prompt_template |-> t,
     openai_api_key |-> k, base_url |-> u, model |-> <<"gpt-4o-mini">>,
     system_prompt |-> sp, concurrency |-> c, dry_run |-> d, dry_run_count |-> 10,
     passthrough |-> pt, env |-> e] :
      t \in PromptTemplates,
      k \in {None, Some(<<>>), Some(<<"sk-param">>)},
      u \in {None, Some(<<"https://openrouter.ai/api/v1">>)},
      sp \in {None, Some(<<"You are a classifier.">>)},
      c \in 1..MaxConcurrency, d \in BOOLEAN, pt \in BOOLEAN,
      e \in ExperimentEnvs }

\* What the upstream runner may raise before any task ran.
RunLoadErrors ==
  { Exc("ValueError", <<"Dataset", " ", "ds-1", " ", "not found">>),
    Exc("ConnectionError", <<>>) }

\* What a completion call may raise.
CompletionErrors ==
  { Exc("AuthenticationError", <<"Incorrect ", "API key", " provided">>),
    Exc("APITimeoutError", <<"Request timed out.">>) }

CompletionTexts == {<<"positive">>}

----------------------------------------------------------------------------
(* One invocation of a tool: the whole handler runs, and the state holds
   what it was given, what it called and what came back.  The server keeps
   nothing from one invocation to the next. *)
Invoke(name, a, res) ==
  /\ op' = name
  /\ args' = a
  /\ calls' = res.calls
  /\ response' = res.response
  /\ raised' = res.raised
  /\ UNCHANGED <<ret, expVars, srvVars>>

ListProjects ==
  /\ op = "none"
  /\ \E rest \in HttpOutcomes, gql \in HttpOutcomes,
       listing \in ProjectLists, models \in ProjectLists :
      Invoke("list_projects", <<>>, ListProjectsHandler(rest, gql, listing, models))

GetModelSchema ==
  /\ op = "none"
  /\ \E gql \in HttpOutcomes, days \in DayInputs :
      Invoke("get_model_schema", [model_id |-> "model-1", days |-> days],
             GetModelSchemaHandler(gql))

ExportTraces ==
  /\ op = "none"
  /\ \E p \in ProjectNames, limit \in LimitInputs, up \in ExportOutcomes :
      Invoke("export_traces", [project_name |-> p, limit |-> limit],
             ExportTracesHandler(p, limit, None, up))

GetTrace ==
  /\ op = "none"
  /\ \E p \in ProjectNames, t \in TraceIdInputs, up \in ExportOutcomes :
      Invoke("get_trace", [project_name |-> p, trace_id |-> t],
             GetTraceHandler(p, t, up))

FilterSpans ==
  /\ op = "none"
  /\ \E p \in ProjectNames, limit \in LimitInputs, w \in WhereInputs,
       k \in SpanKindInputs, h \in HasErrorInputs, up \in ExportOutcomes :
      Invoke("filter_spans",
             [project_name |-> p, limit |-> limit, where |-> w, span_kind |-> k,
              has_error |-> h],
             FilterSpansHandler(p, limit, w, k, h, up))

AnalyzeLatency ==
  /\ op = "none"
  /\ \E p \in ProjectNames, d \in DayInputs, k \in SpanKindInputs, up \in ExportOutcomes :
      Invoke("analyze_latency", [project_name |-> p, days |-> d, span_kind |-> k],
             AnalyzeLatencyHandler(p, d, k, up))

AnalyzeErrors ==
  /\ op = "none"
  /\ \E p \in ProjectNames, d \in DayInputs, l \in LimitInputs, up \in ErrorOutcomes :
      \E counts \in ValueCounts(IF up.ok THEN MessageSeries(up.val) ELSE <<>>) :
        Invoke("analyze_errors", [project_name |-> p, days |-> d, limit |-> l],
               AnalyzeErrorsHandler(p, d, l, up, counts))

GetTraceStatistics ==
  /\ op = "none"
  /\ \E p \in ProjectNames, d \in DayInputs, up \in StatOutcomes :
      Invoke("get_trace_statistics", [project_name |-> p, days |-> d],
             GetTraceStatisticsHandler(p, d, up))

ListDatasets ==
  /\ op = "none"
  /\ \E http \in HttpOutcomes : Invoke("list_datasets", <<>>, ListDatasetsHandler(http))

GetDataset ==
  /\ op = "none"
  /\ \E h1 \in HttpOutcomes, h2 \in HttpOutcomes :
      Invoke("get_dataset", [dataset_id |-> "ds-1"], GetDatasetHandler("ds-1", h1, h2))

CreateDataset ==
  /\ op = "none"
  /\ \E http \in HttpOutcomes :
      Invoke("create_dataset", [name |-> "new-dataset"],
             CreateDatasetHandler("new-dataset", http))

DeleteDataset ==
  /\ op = "none"
  /\ \E http \in HttpOutcomes :
      Invoke("delete_dataset", [dataset_id |-> "ds-1"], DeleteDatasetHandler("ds-1", http))

ListExperiments ==
  /\ op = "none"
  /\ \E http \in HttpOutcomes : Invoke("list_experiments", <<>>, ListExperimentsHandler(http))

GetExperiment ==
  /\ op = "none"
  /\ \E http \in HttpOutcomes, sdk \in SdkRunsOutcomes :
      Invoke("get_experiment", [experiment_id |-> "exp-1"],
             GetExperimentHandler("exp-1", http, sdk))

\* The result goes back to the caller and the server waits for the next call.
Deliver ==
  /\ op # "none"
  /\ op' = "none"
  /\ args' = <<>>
  /\ calls' = <<>>
  /\ response' = NoResponse
  /\ raised' = NoException
  /\ UNCHANGED <<ret, expVars, srvVars>>

Init ==
  /\ op = "none"
  /\ args = <<>>
  /\ calls = <<>>
  /\ response = NoResponse
  /\ raised = NoException
  /\ ret = NotApplied
  /\ pc = "idle"
  /\ client = NoClient
  /\ examples = <<>>
  /\ task = <<>>
  /\ sent = <<>>
  /\ outputs = <<>>
  /\ initialized = FALSE
  /\ init_error = None
  /\ registered = {}
  /\ boot = NotBooted

Next ==
  \/ ListProjects
  \/ GetModelSchema
  \/ ExportTraces
  \/ GetTrace
  \/ FilterSpans
  \/ AnalyzeErrors
  \/ AnalyzeLatency
  \/ GetTraceStatistics
  \/ ListDatasets
  \/ GetDataset
  \/ CreateDataset
  \/ DeleteDataset
  \/ ListExperiments
  \/ GetExperiment
  \/ Deliver

Spec == Init /\ [][Next]_vars

----------------------------------------------------------------------------
(* run_experiment, step by step: the handler, the upstream runner it calls
   and the row tasks the runner starts, up to `concurrency` at a time. *)

ExpCall ==
  /\ pc = "idle"
  /\ \E a \in RunExperimentInputs :
       /\ op' = "run_experiment"
       /\ args' = a
  /\ pc' = "precheck"
  /\ UNCHANGED <<calls, response, raised, ret, client, examples, task, sent, outputs, srvVars>>

\* Lines 269-285: the credential is resolved, its absence is reported, the
\* client is constructed.
ExpPrecheck ==
  /\ pc = "precheck"
  /\ IF ~args.passthrough /\ ~Truthy(ResolvedApiKey(args)) THEN
       /\ response' = ApiKeyRequiredResponse
       /\ pc' = "done"
       /\ UNCHANGED client
     ELSE IF NeedsClient(args) /\ ~args.env.openai_installed THEN
       /\ response' = ImportErrorResponse
       /\ pc' = "done"
       /\ UNCHANGED client
     ELSE
       /\ client' = IF NeedsClient(args) THEN BuildClient(args) ELSE NoClient
       /\ pc' = "run"
       /\ UNCHANGED response
  /\ UNCHANGED <<op, args, calls, raised, ret, examples, task, sent, outputs, srvVars>>

\* Line 392: clients.arize.experiments.run is called.
ExpRunStart ==
  /\ pc = "run"
  /\ calls' = Append(calls, Call("arize.experiments.run", RunKwargs(args), Pending))
  /\ pc' = "loading"
  /\ UNCHANGED <<op, args, response, raised, ret, client, examples, task, sent, outputs, srvVars>>

\* The runner loads the dataset's examples.
ExpLoad ==
  /\ pc = "loading"
  /\ \E ds \in DatasetInputs :
       /\ examples' = ds
       /\ task' = [i \in 1..Len(ds) |-> "pending"]
       /\ sent' = [i \in 1..Len(ds) |-> <<>>]
       /\ outputs' = [i \in 1..Len(ds) |-> NoOutput]
  /\ pc' = "tasks"
  /\ UNCHANGED <<op, args, calls, response, raised, ret, client, srvVars>>

\* task(example) with the messages list shared by the tasks in flight.
TaskStart_SharedMessages ==
  /\ pc = "tasks"
  /\ Cardinality(InFlight) < args.concurrency
  /\ \E i \in DOMAIN task :
       /\ task[i] = "pending"
       /\ LET formatted_prompt == FormatPrompt(args.prompt_template, examples[i]) IN
          IF args.passthrough THEN
            /\ task' = [task EXCEPT ![i] = "done"]
            /\ outputs' = [j \in DOMAIN outputs |->
                             IF j = i \/ task[j] = "done"
                             THEN TaskOutput(formatted_prompt) ELSE outputs[j]]
            /\ UNCHANGED sent
          ELSE
            /\ task' = [task EXCEPT ![i] = "inflight"]
            /\ sent' = [j \in DOMAIN sent |->
                          IF j = i \/ task[j] = "inflight"
                          THEN TaskMessages(args.system_prompt, formatted_prompt)
                          ELSE sent[j]]
            /\ UNCHANGED outputs
  /\ UNCHANGED <<op, args, calls, response, raised, ret, pc, client, examples, srvVars>>

\* task(example), lines 370-389, up to the completion call.
TaskStart ==
  /\ pc = "tasks"
  /\ Cardinality(InFlight) < args.concurrency
  /\ \E i \in DOMAIN task :
       /\ task[i] = "pending"
       /\ LET formatted_prompt == FormatPrompt(args.prompt_template, examples[i]) IN
          IF args.passthrough THEN
            /\ task' = [task EXCEPT ![i] = "done"]
            /\ outputs' = [outputs EXCEPT ![i] = TaskOutput(formatted_prompt)]
            /\ UNCHANGED sent
          ELSE
            /\ task' = [task EXCEPT ![i] = "inflight"]
            /\ sent' = [sent EXCEPT ![i] = TaskMessages(args.system_prompt, formatted_prompt)]
            /\ UNCHANGED outputs
  /\ UNCHANGED <<op, args, calls, response, raised, ret, pc, client, examples, srvVars>>

\* The completion call comes back: response.choices[0].message.content.
TaskEnd ==
  /\ pc = "tasks"
  /\ \E i \in DOMAIN task, text \in CompletionTexts :
       /\ task[i] = "inflight"
       /\ task' = [task EXCEPT ![i] = "done"]
       /\ outputs' = [outputs EXCEPT ![i] = TaskOutput(text)]
  /\ UNCHANGED <<op, args, calls, response, raised, ret, pc, client, examples, sent, srvVars>>

\* The completion call raises.
TaskRaise ==
  /\ pc = "tasks"
  /\ \E i \in DOMAIN task, e \in CompletionErrors :
       /\ task[i] = "inflight"
       /\ task' = [task EXCEPT ![i] = "failed"]
       /\ outputs' = [outputs EXCEPT ![i] = TaskError(e)]
  /\ UNCHANGED <<op, args, calls, response, raised, ret, pc, client, examples, sent, srvVars>>

\* What experiments.run may raise: a load failure before the tasks, a
\* task's failure once one has failed.
RunRaisable ==
  IF pc = "loading" THEN RunLoadErrors
  ELSE IF pc = "tasks" THEN {outputs[i].exc : i \in {j \in DOMAIN task : task[j] = "failed"}}
  ELSE {}

\* experiments.run raises: lines 420-438.
ExpRunRaise ==
  /\ \E e \in RunRaisable :
       /\ calls' = [calls EXCEPT ![Len(calls)] = Call("arize.experiments.run", RunKwargs(args), Fail(e))]
       /\ pc' = CatchRun(e).pc
       /\ response' = CatchRun(e).response
       /\ raised' = CatchRun(e).raised
  /\ UNCHANGED <<op, args, ret, client, examples, task, sent, outputs, srvVars>>

\* experiments.run returns (experiment, results_df): lines 401-418.
ExpRunReturn ==
  /\ pc = "tasks"
  /\ \A i \in DOMAIN task : task[i] \in {"done", "failed"}
  /\ \E experiment \in {None, Some(<<"exp-1">>)} :
       /\ calls' = [calls EXCEPT ![Len(calls)] =
                      Call("arize.experiments.run", RunKwargs(args), Ok(experiment))]
       /\ response' = ExperimentResponse(args.dry_run, args.name, args.dataset_id,
                                         ResultsTable, experiment)
  /\ pc' = "done"
  /\ UNCHANGED <<op, args, raised, ret, client, examples, task, sent, outputs, srvVars>>

NextExp ==
  \/ ExpCall
  \/ ExpPrecheck
  \/ ExpRunStart
  \/ ExpLoad
  \/ TaskStart
  \/ TaskEnd
  \/ TaskRaise
  \/ ExpRunRaise
  \/ ExpRunReturn

SpecExp == Init /\ [][NextExp]_vars

----------------------------------------------------------------------------
(* server.py: _setup_tools and the error tool *)

\* _setup_tools() that leaves the flag unset when the try block failed, so
\* that a later call runs the block again.
SetupTools_Retry ==
  /\ op = "none"
  /\ IF initialized /\ init_error = None THEN UNCHANGED srvVars
     ELSE \E env \in ServerEnvs, imports \in ImportOutcomes, clients \in ClientOutcomes :
            LET out == SetupOutcome(env, imports, clients) IN
            /\ initialized' = out.initialized
            /\ init_error' = out.init_error
            /\ registered' = registered \cup out.registered
            /\ boot' = [ran |-> TRUE, env |-> env, imports |-> imports,
                        clients |-> clients, raised |-> out.raised]
  /\ UNCHANGED <<toolVars, ret, expVars>>

\* _setup_tools(): nothing happens once _initialized is true.
SetupTools ==
  /\ op = "none"
  /\ IF initialized THEN UNCHANGED srvVars
     ELSE \E env \in ServerEnvs, imports \in ImportOutcomes, clients \in ClientOutcomes :
            LET out == SetupOutcome(env, imports, clients) IN
            /\ initialized' = out.initialized
            /\ init_error' = out.init_error
            /\ registered' = registered \cup out.registered
            /\ boot' = [ran |-> TRUE, env |-> env, imports |-> imports,
                        clients |-> clients, raised |-> out.raised]
  /\ UNCHANGED <<toolVars, ret, expVars>>

\* A client calls the registered get_status tool.
GetStatus ==
  /\ op = "none"
  /\ "get_status" \in registered
  /\ op' = "get_status"
  /\ args' = <<>>
  /\ calls' = <<>>
  /\ response' = GetStatusResponse(init_error)
  /\ raised' = NoException
  /\ UNCHANGED <<ret, expVars, srvVars>>

NextServer ==
  \/ SetupTools
  \/ GetStatus
  \/ Deliver

SpecServer == Init /\ [][NextServer]_vars

----------------------------------------------------------------------------
(* The pure helpers, applied to inputs drawn from bounded sets *)

\* Characters of the ids the validator is applied to: hex letters of both
\* cases, a digit, the hyphen, and characters outside the class.
PureIdChars == {"a", "F", "9", "-", "g", "'", "<", " ", "\n"}

PureIdInputs == SeqsUpTo(PureIdChars, MaxStrLen) \cup LongIds

ApplyValidateTraceId ==
  /\ ret.fn = "none"
  /\ \E s \in PureIdInputs :
       ret' = [fn |-> "_validate_trace_id", arg |-> s, val |-> ValidateTraceId(s)]
  /\ UNCHANGED <<toolVars, expVars, srvVars>>

\* The value goes back to the caller.
PureReturn ==
  /\ ret.fn # "none"
  /\ ret' = NotApplied
  /\ UNCHANGED <<toolVars, expVars, srvVars>>

\* A results table of n rows as the upstream runner returns it: numpy
\* integers, text, and a score that is a numpy float or NaN.
ResultsTableOf(n) ==
  [i \in 1..n |->
     [example_id |-> [t |-> "np.int64", v |-> i],
      output |-> StrCell(<<"out">>),
      score |-> IF i % 2 = 0 THEN NaNCell ELSE FloatCell(i)]]

\* Lines 401-418 applied to a results table of every size up to MaxRows.
ApplyExperimentResponse ==
  /\ ret.fn = "none"
  /\ \E n \in 0..MaxRows, d \in BOOLEAN, experiment \in {None, Some(<<"exp-1">>)} :
       ret' = [fn |-> "experiment_response", arg |-> ResultsTableOf(n),
               val |-> ExperimentResponse(d, <<"exp">>, <<"ds-1">>, ResultsTableOf(n), experiment)]
  /\ UNCHANGED <<toolVars, expVars, srvVars>>

\* Latency values in ms, and series of them with missing entries.
LatencyInputs == SeqsUpTo({1, 2, 10}, MaxSeriesLen)

SeriesInputs == SeqsUpTo({FloatCell(1), FloatCell(3), NaNCell}, MaxSeriesLen)

\* Lines 234-251 applied to the latencies left after dropna().
ApplyLatencyStats ==
  /\ ret.fn = "none"
  /\ \E xs \in LatencyInputs :
       ret' = [fn |-> "latency_stats", arg |-> xs, val |-> LatencyStats(xs)]
  /\ UNCHANGED <<toolVars, expVars, srvVars>>

ApplySafeStd ==
  /\ ret.fn = "none"
  /\ \E series \in SeriesInputs :
       ret' = [fn |-> "_safe_std", arg |-> series, val |-> SafeStd(series)]
  /\ UNCHANGED <<toolVars, expVars, srvVars>>

\* A message column of n distinct messages, the later ones the more
\* frequent, the counts equal two by two.
GroupedSeries(n) ==
  Join([i \in 1..n |-> Rep(StrCell(ToString(i)), ((i - 1) \div 2) + 1)], <<>>)

PatternInputs ==
  SeqsUpTo({StrCell("Rate limit"), StrCell("Timeout"), NaNCell}, MaxSeriesLen)
    \cup {GroupedSeries(n) : n \in 1..MaxGroups}

\* The grouping of analyze_errors (lines 146-150) on one message column.
ApplyErrorPatterns ==
  /\ ret.fn = "none"
  /\ \E series \in PatternInputs :
       \E counts \in ValueCounts(series) :
         ret' = [fn |-> "error_patterns", arg |-> series, val |-> ErrorPatterns(counts)]
  /\ UNCHANGED <<toolVars, expVars, srvVars>>

\* The pieces templates are made of: literal text, a brace on its own, the
\* five reserved placeholders, dotted placeholders of one and of two levels,
\* an unknown name.
Placeholder(key) == <<"{">> \o key \o <<"}">>

TemplatePieces ==
  { <<"Input: ">>, <<"{">>, <<"}">>,
    Placeholder(<<"input">>), Placeholder(<<"output">>), Placeholder(<<"metadata">>),
    Placeholder(<<"id">>), Placeholder(<<"dataset_row">>),
    Placeholder(<<"input", ".", "question">>),
    Placeholder(<<"input", ".", "a", ".", "b">>),
    Placeholder(<<"nope">>) }

FormatTemplates == {Join(ps, <<>>) : ps \in SeqsUpTo(TemplatePieces, MaxPieces)}

ExampleQuestion ==
  [backing |-> "mapping",
   fields |-> <<KV(<<"input">>, DictV(<<KV(<<"question">>, StrV(<<"Q">>))>>))>>]

ExampleDeep ==
  [backing |-> "mapping",
   fields |-> <<KV(<<"input">>, DictV(<<KV(<<"a">>, DictV(<<KV(<<"b">>, StrV(<<"x">>))>>))>>)),
                KV(<<"metadata">>, DictV(<<KV(<<"k">>, StrV(<<"v">>))>>))>>]

ExampleEcho ==
  [backing |-> "attr",
   fields |-> <<KV(<<"id">>, IntV(<<"7">>)), KV(<<"input">>, StrV(<<"id">>))>>]

FormatExamples == {ExampleQ, ExampleNested, ExampleQuestion, ExampleDeep, ExampleEcho}

ApplyFormatPrompt ==
  /\ ret.fn = "none"
  /\ \E t \in FormatTemplates, e \in FormatExamples :
       ret' = [fn |-> "_format_prompt", arg |-> [template |-> t, example |-> e],
               val |-> FormatPrompt(t, e)]
  /\ UNCHANGED <<toolVars, expVars, srvVars>>

\* Span kinds given to the two copies of _validate_span_kind.
PureKindInputs ==
  NamedKinds \cup VALID_SPAN_KINDS \cup SeqsUpTo({"l", "L", "m"}, MaxKindLen)
    \cup { <<"r","e","t","r","i","e","v","e","r">>, <<"E","m","b","e","d","d","i","n","g">>,
           <<"c","h","a","i","n","s">>, <<"L","L">> }

ApplyValidateSpanKind ==
  /\ ret.fn = "none"
  /\ \E s \in PureKindInputs :
       ret' = [fn |-> "_validate_span_kind", arg |-> s,
               val |-> [traces |-> ValidateSpanKind(s),
                        analysis |-> ValidateSpanKindAnalysis(s)]]
  /\ UNCHANGED <<toolVars, expVars, srvVars>>

\* Limits given to _df_to_records: none of the rows, some, all, more.
RecordLimits == 0..(MaxDfRows + 1)

\* The two copies of _df_to_records on one table.
ApplyDfToRecords ==
  /\ ret.fn = "none"
  /\ \E df \in ExportTables, limit \in RecordLimits :
       ret' = [fn |-> "_df_to_records", arg |-> [table |-> df, limit |-> limit],
               val |-> [traces |-> DfToRecordsTraces(df, limit),
                        analysis |-> DfToRecordsAnalysis(df, limit)]]
  /\ UNCHANGED <<toolVars, expVars, srvVars>>

\* Keyword arguments ArizeRestClient is constructed with: the key alone, or
\* the key and a space id.
ClientKeywords ==
  { [k \in {"api_key"} |-> "ak-test-key"],
    [k \in {"api_key", "space_id"} |->
       IF k = "api_key" THEN "ak-test-key" ELSE "U3BhY2U6dGVzdA=="] }

(* ArizeRestClient.__init__(self, api_key): a keyword the signature does not
   name raises TypeError before the body runs; the body sets api_key and
   _client and nothing else. *)
RestClientInit(kwargs) ==
  IF \E k \in DOMAIN kwargs : k # "api_key" THEN
    Fail(Exc("TypeError", <<"__init__() got an unexpected keyword argument ",
                            "'space_id'">>))
  ELSE IF "api_key" \notin DOMAIN kwargs THEN
    Fail(Exc("TypeError", <<"__init__() missing 1 required positional argument: ",
                            "'api_key'">>))
  ELSE Ok([a \in {"api_key", "_client"} |->
             IF a = "api_key" THEN kwargs["api_key"]
             ELSE "Bearer " \o kwargs["api_key"]])

\* The payload create_dataset builds: name, then description and examples
\* when truthy.
CreateDatasetPayload(name, description, example_list) ==
  LET keys == {"name"}
                \cup (IF Truthy(description) THEN {"description"} ELSE {})
                \cup (IF Truthy(example_list) THEN {"examples"} ELSE {})
  IN [k \in keys |-> CASE k = "name" -> name
                       [] k = "description" -> description.v
                       [] k = "examples" -> example_list.v]

\* Descriptions and example lists given to create_dataset: omitted, empty,
\* present.
PayloadDescriptions == {None, Some(<<>>), Some(<<"A test dataset">>)}

PayloadExamples == {None, Some(<<>>), Some(<<Example1>>)}

\* A client is constructed and create_dataset builds its request payload.
ApplyCreateDataset ==
  /\ ret.fn = "none"
  /\ \E kw \in ClientKeywords, d \in PayloadDescriptions, e \in PayloadExamples :
       LET c == RestClientInit(kw) IN
       ret' = [fn |-> "ArizeRestClient.create_dataset",
               arg |-> [kwargs |-> kw, name |-> "test-dataset",
                        description |-> d, examples |-> e],
               val |-> [client |-> c,
                        payload |-> IF c.ok
                                    THEN CreateDatasetPayload("test-dataset", d, e)
                                    ELSE <<>>]]
  /\ UNCHANGED <<toolVars, expVars, srvVars>>

NextPure ==
  \/ ApplyValidateTraceId
  \/ ApplyExperimentResponse
  \/ ApplyLatencyStats
  \/ ApplySafeStd
  \/ ApplyErrorPatterns
  \/ ApplyFormatPrompt
  \/ ApplyValidateSpanKind
  \/ ApplyDfToRecords
  \/ ApplyCreateDataset
  \/ PureReturn

SpecPure == Init /\ [][NextPure]_vars

----------------------------------------------------------------------------
(* Claims *)

ExportCalls == {i \in 1..Len(calls) : calls[i].api = "spans.export_to_df"}

IsErrorResponse == raised = NoException /\ "error" \in DOMAIN response

\* C1: every tool operation returns a response object whatever its upstream
\* calls raise; no exception propagates to the caller.
C1_EveryToolReturnsResponse ==
  op # "none" => (raised = NoException /\ response # NoResponse)

\* C2: in get_trace, filter_spans and analyze_latency a trace_id or a
\* supplied span_kind that fails validation gives an error response (with
\* the valid kinds for span_kind) and no export call; an export call is only
\* made once validation has passed.
C2_ValidationBeforeExport ==
  /\ op = "get_trace" =>
       /\ ~ValidateTraceId(args.trace_id) => (IsErrorResponse /\ calls = <<>>)
       /\ ExportCalls # {} => ValidateTraceId(args.trace_id)
  /\ op \in {"filter_spans", "analyze_latency"} =>
       /\ (Truthy(args.span_kind) /\ Upper(args.span_kind.v) \notin VALID_SPAN_KINDS) =>
            /\ IsErrorResponse
            /\ "valid_kinds" \in DOMAIN response
            /\ response.valid_kinds = VALID_SPAN_KINDS
            /\ calls = <<>>
       /\ ExportCalls # {} =>
            (Truthy(args.span_kind) => Upper(args.span_kind.v) \in VALID_SPAN_KINDS)

\* C2 witness: analyze_latency rejected an invalid span kind and made no
\* call.
C2_Witness ==
  /\ op = "analyze_latency"
  /\ Truthy(args.span_kind)
  /\ Upper(args.span_kind.v) \notin VALID_SPAN_KINDS
  /\ IsErrorResponse
  /\ calls = <<>>

\* Text of 1 to 64 hexadecimal digits and hyphens.
HexOrHyphen ==
  {"0","1","2","3","4","5","6","7","8","9",
   "a","b","c","d","e","f","A","B","C","D","E","F","-"}

IsHexId(s) == Len(s) >= 1 /\ Len(s) <= 64 /\ \A i \in 1..Len(s) : s[i] \in HexOrHyphen

\* C3: _validate_trace_id(s) is true iff s is non-empty, at most 64
\* characters long and made of hexadecimal digits and hyphens only.
C3_ValidateTraceIdIffHex ==
  ret.fn = "_validate_trace_id" => (ret.val <=> IsHexId(ret.arg))

\* The span-kind fragments of a predicate: the text between each
\* "span_kind = '" and the quote that closes it.
KindFragments(w) ==
  { SubSeq(w, i + 1, j - 1) :
      <<i, j>> \in { p \in (1..Len(w)) \X (1..Len(w)) :
                      /\ w[p[1]] = "span_kind = '"
                      /\ p[2] > p[1]
                      /\ w[p[2]] = "'"
                      /\ \A k \in (p[1] + 1)..(p[2] - 1) : w[k] # "'" } }

\* C4: the trace-id fragment of every predicate get_trace sends is 1 to 64
\* hexadecimal digits and hyphens, and the span-kind fragment of every
\* predicate filter_spans sends is one of the six span kinds in upper case.
C4_FragmentsValidated ==
  \A i \in ExportCalls :
    /\ op = "get_trace" =>
         LET w == calls[i].arg.where.v IN
         /\ Len(w) >= 2
         /\ w[1] = "context.trace_id = '"
         /\ w[Len(w)] = "'"
         /\ IsHexId(SubSeq(w, 2, Len(w) - 1))
    /\ (op = "filter_spans" /\ Truthy(args.span_kind)) =>
         /\ calls[i].arg.where.some
         /\ KindFragments(calls[i].arg.where.v) # {}
         /\ KindFragments(calls[i].arg.where.v) \subseteq VALID_SPAN_KINDS

RestFailedWith(statuses) ==
  /\ op = "list_projects"
  /\ Len(calls) >= 1
  /\ calls[1].api = "rest.list_projects"
  /\ calls[1].arg.kind = "response"
  /\ calls[1].arg.status \in statuses

\* C5: whenever the REST listing fails with HTTP 401 or HTTP 403,
\* list_projects falls back to the GraphQL listing and, if that succeeds,
\* returns its projects and their count.
C5_FallbackOnAuthFailure ==
  RestFailedWith({401, 403}) =>
    /\ Len(calls) = 2
    /\ calls[2].api = "graphql.list_models"
    /\ calls[2].ok =>
         /\ raised = NoException
         /\ "projects" \in DOMAIN response
         /\ response.count = Len(response.projects)

GraphqlCalls == {i \in 1..Len(calls) : calls[i].api = "graphql.list_models"}

\* C6: list_projects calls REST first; GraphQL is never called after a REST
\* success, is called at most once and only after the REST listing failed;
\* when both fail the response carries both messages and a hint.
C6_RestThenGraphql ==
  op = "list_projects" =>
    /\ Len(calls) >= 1
    /\ calls[1].api = "rest.list_projects"
    /\ calls[1].ok => (GraphqlCalls = {} /\ "projects" \in DOMAIN response)
    /\ Cardinality(GraphqlCalls) <= 1
    /\ \A i \in GraphqlCalls : i = 2 /\ ~calls[1].ok
    /\ (GraphqlCalls # {} /\ ~calls[1].ok /\ ~calls[2].ok) =>
         /\ IsErrorResponse
         /\ response.error = calls[1].exc.msg
         /\ "graphql_error" \in DOMAIN response
         /\ response.graphql_error = calls[2].exc.msg
         /\ "hint" \in DOMAIN response

\* C6 witness: both listings were tried, in order, and both failed with
\* different messages.
C6_Witness ==
  /\ op = "list_projects"
  /\ Len(calls) = 2
  /\ ~calls[1].ok
  /\ ~calls[2].ok
  /\ calls[1].exc.msg # calls[2].exc.msg
  /\ "graphql_error" \in DOMAIN response

RunCalls == {i \in 1..Len(calls) : calls[i].api = "arize.experiments.run"}

\* An Optional[str] that is given: not None and not the empty string.
Given(x) == x.some /\ x.v # <<>>

\* C7: with passthrough true run_experiment goes on to the experiment run
\* whether or not a credential is available, constructs no model client,
\* issues no completion call, and each example's task output is the prompt
\* template formatted with that example.
C7_PassthroughNeedsNoCredential ==
  /\ []((op = "run_experiment" /\ args.passthrough) =>
          /\ ~client.built
          /\ \A i \in DOMAIN sent : sent[i] = <<>>
          /\ \A i \in DOMAIN task : task[i] \notin {"inflight", "failed"}
          /\ \A i \in DOMAIN task :
               task[i] = "done" =>
                 /\ outputs[i].kind = "text"
                 /\ outputs[i].text = FormatPrompt(args.prompt_template, examples[i])
          /\ pc = "done" =>
               ("error" \in DOMAIN response => response.error # <<"API key required">>))
  /\ [][(pc = "precheck" /\ args.passthrough) => pc' = "run"]_vars

\* C7 witness: a passthrough run with no credential anywhere came back
\* with a success response after every task returned its formatted prompt.
C7_Witness ==
  /\ op = "run_experiment"
  /\ args.passthrough
  /\ ~Given(args.openai_api_key)
  /\ ~Given(args.env.OPENAI_API_KEY)
  /\ pc = "done"
  /\ "success" \in DOMAIN response
  /\ Len(examples) >= 2
  /\ \A i \in DOMAIN task : task[i] = "done"
  /\ response.results[1].output.v # response.results[2].output.v

\* C8: with passthrough false the credential used is the openai_api_key
\* parameter when it is given (non-empty) and the OPENAI_API_KEY environment
\* value otherwise; with neither, the response is 'API key required', the
\* experiment run is never called and nothing is raised.
C8_CredentialResolution ==
  (op = "run_experiment" /\ ~args.passthrough) =>
    /\ client.built =>
         client.api_key = IF Given(args.openai_api_key) THEN args.openai_api_key.v
                          ELSE args.env.OPENAI_API_KEY.v
    /\ (client.built \/ RunCalls # {}) =>
         (Given(args.openai_api_key) \/ Given(args.env.OPENAI_API_KEY))
    /\ (~Given(args.openai_api_key) /\ ~Given(args.env.OPENAI_API_KEY) /\ pc # "precheck") =>
         /\ pc = "done"
         /\ response = [error |-> <<"API key required">>, hint |-> response.hint]
         /\ RunCalls = {}
         /\ raised = NoException

\* C8 witness: no parameter, no environment value, passthrough false: the
\* handler returned 'API key required'.
C8_Witness ==
  /\ op = "run_experiment"
  /\ ~args.passthrough
  /\ ~Given(args.openai_api_key)
  /\ ~Given(args.env.OPENAI_API_KEY)
  /\ pc = "done"
  /\ "error" \in DOMAIN response
  /\ response.error = <<"API key required">>

\* The lifecycle of one run_experiment invocation: NotStarted before the
\* experiment run is called, Running while it is out, Completed when it
\* came back, Failed when it raised or the handler gave up before it.
RunState ==
  IF pc = "raised" THEN "Raised"
  ELSE IF pc # "done" THEN (IF RunCalls = {} THEN "NotStarted" ELSE "Running")
  ELSE IF RunCalls # {} /\ calls[Len(calls)].ok THEN "Completed"
  ELSE "Failed"

Min(a, b) == IF a <= b THEN a ELSE b

\* C10: in a success response results is the first min(100, N) rows of the
\* N-row results table in their order and total_runs is N, for every N.
C10_ResultsCappedTotalTrue ==
  ret.fn = "experiment_response" =>
    LET N == Len(ret.arg) IN
    /\ ret.val.success = TRUE
    /\ ret.val.total_runs = N
    /\ Len(ret.val.results) = Min(100, N)
    /\ \A i \in 1..Len(ret.val.results) :
         /\ ret.val.results[i].example_id.v = ret.arg[i].example_id.v
         /\ ret.val.results[i].output = ret.arg[i].output

\* C10 witness: a table of more than 100 rows was reported.
C10_Witness ==
  /\ ret.fn = "experiment_response"
  /\ Len(ret.arg) > 100
  /\ Len(ret.val.results) = 100
  /\ ret.val.total_runs = Len(ret.arg)

\* The initializing _setup_tools call met a configuration that does not load.
ConfigFailed == boot.ran /\ boot.imports.ok /\ ~GetConfig(boot.env).ok

\* The initializing call loaded the configuration and ArizeClients raised.
ClientsFailed ==
  boot.ran /\ boot.imports.ok /\ GetConfig(boot.env).ok /\ ~boot.clients.ok

\* The message of the failure the initializing call met.
BootFailure ==
  IF ConfigFailed THEN GetConfig(boot.env).exc.msg ELSE boot.clients.exc.msg

\* C11: when configuration loading or client construction fails in
\* _setup_tools no exception escapes, _init_error holds the failure message,
\* get_status is registered, and get_status returns status 'error' with
\* that message and a hint.
C11_StartupFailureReported ==
  (ConfigFailed \/ ClientsFailed) =>
    /\ boot.raised = NoException
    /\ init_error = Some(BootFailure)
    /\ "get_status" \in registered
    /\ op = "get_status" =>
         /\ response.status = "error"
         /\ "error" \in DOMAIN response
         /\ response.error = BootFailure
         /\ "hint" \in DOMAIN response

\* C12: after a configuration error the status operation is registered and
\* the project, trace, dataset and analysis tools are registered too.
C12_ToolSurfaceDegrades ==
  ConfigFailed =>
    /\ "get_status" \in registered
    /\ (ModelTools \cup TraceTools \cup DatasetTools \cup AnalysisTools) \subseteq registered

\* a <= b for two exact floats.
Leq(a, b) == a.v * b.den <= b.v * a.den

\* The i-th smallest of the values xs (the i-th order statistic).
OrderStat(xs, i) ==
  CHOOSE v \in Range(xs) :
    /\ Cardinality({j \in 1..Len(xs) : xs[j] < v}) < i
    /\ Cardinality({j \in 1..Len(xs) : xs[j] <= v}) >= i

\* Linear interpolation between order statistics at fraction k / 100.
Interpolated(xs, k) ==
  LET pos == (Len(xs) - 1) * k
      lo == OrderStat(xs, (pos \div 100) + 1)
      hi == OrderStat(xs, IF pos % 100 = 0 THEN (pos \div 100) + 1 ELSE (pos \div 100) + 2)
  IN Float(100 * lo + (pos % 100) * (hi - lo), 100)

\* C13: for every non-empty set of latency values the latency_stats satisfy
\* min <= p50 <= p75 <= p90 <= p95 <= p99 <= max, each percentile being the
\* linear interpolation between order statistics at its fraction.
C13_PercentilesOrdered ==
  (ret.fn = "latency_stats" /\ Len(ret.arg) >= 1) =>
    LET st == ret.val IN
    /\ Leq(st.min_ms, st.p50_ms)
    /\ Leq(st.p50_ms, st.p75_ms)
    /\ Leq(st.p75_ms, st.p90_ms)
    /\ Leq(st.p90_ms, st.p95_ms)
    /\ Leq(st.p95_ms, st.p99_ms)
    /\ Leq(st.p99_ms, st.max_ms)
    /\ st.p50_ms = Interpolated(ret.arg, 50)
    /\ st.p75_ms = Interpolated(ret.arg, 75)
    /\ st.p90_ms = Interpolated(ret.arg, 90)
    /\ st.p95_ms = Interpolated(ret.arg, 95)
    /\ st.p99_ms = Interpolated(ret.arg, 99)

\* C13 witness: unsorted latencies whose percentiles fall strictly between
\* order statistics and strictly apart.
C13_Witness ==
  /\ ret.fn = "latency_stats"
  /\ Len(ret.arg) >= 3
  /\ ret.arg[1] > ret.arg[2]
  /\ ret.val.p90_ms.v % 100 # 0
  /\ ~Leq(ret.val.p90_ms, ret.val.p50_ms)
  /\ ~Leq(ret.val.max_ms, ret.val.p99_ms)

\* The values of a series that are not missing.
Present(series) == {i \in 1..Len(series) : series[i].t \notin {"nan", "None"}}

\* C14: _safe_std is exactly 0.0 for a series of zero or one value and
\* whenever the deviation is not a number, positive for two or more
\* distinct values otherwise; the std_ms of latency_stats is a float, never
\* NaN and never null.
C14_SafeStdNeverNaN ==
  /\ ret.fn = "_safe_std" =>
       /\ ret.val.t = "float"
       /\ (Len(ret.arg) <= 1 \/ Cardinality(Present(ret.arg)) <= 1) => ret.val = Float(0, 1)
       /\ (\E i, j \in Present(ret.arg) : ret.arg[i].v # ret.arg[j].v) =>
            (ret.val.v > 0 /\ ret.val.den > 0)
  /\ ret.fn = "latency_stats" => ret.val.std_ms.t = "float"

\* C14 witness: a series of two entries of which one is missing: the
\* deviation is not a number and 0.0 is returned.
C14_Witness ==
  /\ ret.fn = "_safe_std"
  /\ Len(ret.arg) = 2
  /\ Cardinality(Present(ret.arg)) = 1
  /\ ret.val = Float(0, 1)

\* The table the export of this invocation returned.
Exported == calls[Len(calls)].val["spans.export_to_df"]

\* The rows analyze_latency computes on: those of the requested kind when
\* a kind is supplied and the table has the span-kind column, all otherwise.
KindRows ==
  IF Truthy(args.span_kind) /\ HasColumn(Exported, SPAN_KIND_COLUMN)
  THEN {i \in 1..Len(Exported.rows) :
          Exported.rows[i][SPAN_KIND_COLUMN] = StrCell(Upper(args.span_kind.v))}
  ELSE 1..Len(Exported.rows)

\* The latency column of the exported table (latency_ms here).
HasLatency == HasColumn(Exported, "latency_ms")

\* C15: in analyze_latency, whenever no latency value remains after the
\* span-kind filter and after dropping missing entries, the response is a
\* zero-count result with a message and without latency_stats.
C15_NoLatencyZeroCount ==
  (/\ op = "analyze_latency"
   /\ calls # <<>>
   /\ calls[Len(calls)].ok
   /\ ~DfEmpty(Exported)
   /\ HasLatency
   /\ \A i \in KindRows : Exported.rows[i]["latency_ms"].t \in {"nan", "None"}) =>
    /\ response.span_count = 0
    /\ "message" \in DOMAIN response
    /\ "latency_stats" \notin DOMAIN response

\* The aggregate operations.
AggregateOps == {"analyze_errors", "analyze_latency", "get_trace_statistics"}

\* The name of each aggregate operation's count.
CountKey ==
  [o \in AggregateOps |->
     CASE o = "analyze_errors" -> "error_count"
       [] o = "analyze_latency" -> "span_count"
       [] OTHER -> "total_spans"]

\* C16: when the upstream export returns an empty table, each aggregate
\* operation returns a zero-count result with a message field and nothing
\* computed: error_count = 0 for analyze_errors, span_count = 0 for
\* analyze_latency, total_spans = 0 for get_trace_statistics.
C16_EmptyTableZeroCount ==
  (/\ op \in AggregateOps
   /\ calls # <<>>
   /\ calls[Len(calls)].ok
   /\ DfEmpty(Exported)) =>
    /\ DOMAIN response = {CountKey[op], "time_range_days", "message"}
    /\ response[CountKey[op]] = 0
    /\ Len(response.message) > 0

\* C16 witness: get_trace_statistics on a table that has its columns and no
\* row answers total_spans = 0 with a message.
C16_Witness ==
  /\ op = "get_trace_statistics"
  /\ calls # <<>>
  /\ calls[1].ok
  /\ Len(Exported.columns) > 0
  /\ Len(Exported.rows) = 0
  /\ response.total_spans = 0
  /\ "message" \in DOMAIN response

\* The groups of a message column: its entries that are not missing.
Groups(series) == {c \in Range(series) : c.t \notin {"nan", "None"}}

\* Where an entry first appears in a series.
FirstIndex(series, cell) ==
  CHOOSE i \in 1..Len(series) :
    series[i] = cell /\ \A j \in 1..(i - 1) : series[j] # cell

\* Group a comes before group b: it has the higher count, or the same count
\* and the earlier first appearance.
ListedBefore(series, a, b) ==
  \/ CountOf(series, a) > CountOf(series, b)
  \/ /\ CountOf(series, a) = CountOf(series, b)
     /\ FirstIndex(series, a) < FirstIndex(series, b)

\* The place of a group in the list by count descending, ties in
\* first-encountered order.
Rank(series, g) ==
  1 + Cardinality({k \in Groups(series) : ListedBefore(series, k, g)})

\* C17: error_patterns groups the rows by exact equality of the message,
\* counts each group, lists the groups by count descending with ties in
\* first-encountered order, and keeps at most the first 10 groups.
C17_ErrorPatternsOrder ==
  ret.fn = "error_patterns" =>
    /\ Len(ret.val) = Min(Cardinality(Groups(ret.arg)), TopPatterns)
    /\ \A g \in Groups(ret.arg) :
         Rank(ret.arg, g) <= TopPatterns =>
           ret.val[Rank(ret.arg, g)] =
             [message |-> g.v, count |-> CountOf(ret.arg, g)]

\* The lookup table of an example: its flat context.
LookupTable(example) == FlattenContext(BuildContext(example))

IsPrefix(p, s) == Len(p) <= Len(s) /\ SubSeq(s, 1, Len(p)) = p

\* The template read left to right as placeholders whose key is in the
\* lookup table (with the string form of the value) and single atoms of
\* other text.
RECURSIVE Segments(_, _)
Segments(t, flat) ==
  IF Len(t) = 0 THEN <<>>
  ELSE LET hits == {i \in 1..Len(flat) : IsPrefix(Placeholder(flat[i].k), t)} IN
       IF hits # {}
       THEN LET e == flat[CHOOSE i \in hits : TRUE] IN
            <<[resolved |-> TRUE, text |-> Substitute(e.v)]>>
              \o Segments(SubSeq(t, Len(e.k) + 3, Len(t)), flat)
       ELSE <<[resolved |-> FALSE, text |-> <<Head(t)>>]>> \o Segments(Tail(t), flat)

\* out is made of one piece per segment, in order, the piece of every
\* segment whose `resolved` is `fixed` being that segment's text.
RECURSIVE Pieces(_, _, _)
Pieces(out, segs, fixed) ==
  IF Len(segs) = 0 THEN Len(out) = 0
  ELSE IF Head(segs).resolved = fixed
    THEN /\ IsPrefix(Head(segs).text, out)
         /\ Pieces(SubSeq(out, Len(Head(segs).text) + 1, Len(out)), Tail(segs), fixed)
  ELSE \E k \in 0..Len(out) : Pieces(SubSeq(out, k + 1, Len(out)), Tail(segs), fixed)

\* C18: for every template and example, _format_prompt replaces each
\* placeholder {input}, {output}, {metadata}, {id}, {dataset_row} and each
\* one-level dotted placeholder of a mapping-valued key with the string form
\* of the resolved value (JSON text for a mapping).
C18_PlaceholdersReplaced ==
  ret.fn = "_format_prompt" =>
    Pieces(ret.val, Segments(ret.arg.template, LookupTable(ret.arg.example)), TRUE)

\* C19: a placeholder whose key is not in the lookup table is left verbatim
\* in the output of _format_prompt, and all template text outside resolved
\* placeholders is unchanged.
C19_OtherTextUnchanged ==
  ret.fn = "_format_prompt" =>
    Pieces(ret.val, Segments(ret.arg.template, LookupTable(ret.arg.example)), FALSE)

\* The six span kinds the specification names.
SixKinds ==
  { <<"L","L","M">>, <<"C","H","A","I","N">>, <<"R","E","T","R","I","E","V","E","R">>,
    <<"T","O","O","L">>, <<"E","M","B","E","D","D","I","N","G">>, <<"A","G","E","N","T">> }

\* C20: _validate_span_kind(s) is true iff the upper-cased s is one of LLM,
\* CHAIN, RETRIEVER, TOOL, EMBEDDING, AGENT, and the copy in the trace tools
\* and the copy in the analysis tools agree on every input.
C20_SpanKindValidation ==
  ret.fn = "_validate_span_kind" =>
    /\ ret.val.traces = (Upper(ret.arg) \in SixKinds)
    /\ ret.val.analysis = ret.val.traces

\* C20 witness: 'llm' is accepted by both copies.
C20_Witness ==
  /\ ret.fn = "_validate_span_kind"
  /\ ret.arg = <<"l","l","m">>
  /\ ret.val.traces
  /\ ret.val.analysis

\* The parts of a filter_spans invocation that are supplied (present and not
\* empty), in the order free-text where, span-kind condition, error-status
\* condition.
SuppliedParts ==
  (IF args.where.some /\ args.where.v # <<>> THEN <<args.where.v>> ELSE <<>>)
    \o (IF args.span_kind.some /\ args.span_kind.v # <<>>
        THEN <<SpanKindCondition(args.span_kind.v)>> ELSE <<>>)
    \o (CASE args.has_error = "True" -> <<(<<"status_code = 'ERROR'">>)>>
          [] args.has_error = "False" -> <<(<<"status_code != 'ERROR'">>)>>
          [] OTHER -> <<>>)

\* The predicate the export of this invocation was called with.
SentPredicate == calls[Len(calls)].arg.where

\* C21: the predicate filter_spans sends upstream is the supplied parts
\* joined with ' AND ' in the order free-text where, span-kind condition,
\* error-status condition; it is null when no part is supplied; and the
\* reported filter_applied equals the predicate that was sent.
C21_PredicateJoined ==
  (op = "filter_spans" /\ calls # <<>>) =>
    /\ SuppliedParts = <<>> => SentPredicate = None
    /\ SuppliedParts # <<>> => SentPredicate = Some(Join(SuppliedParts, <<" AND ">>))
    /\ "filter_applied" \in DOMAIN response => response.filter_applied = SentPredicate

\* C21 witness: all three parts are supplied and the export succeeds.
C21_Witness ==
  /\ op = "filter_spans"
  /\ calls # <<>>
  /\ calls[1].ok
  /\ Len(SuppliedParts) = 3
  /\ response.filter_applied = Some(Join(SuppliedParts, <<" AND ">>))

\* C22: filter_spans called with a valid span_kind K reports a
\* filter_applied that contains the condition
\* attributes.openinference.span.kind = '<K in upper case>'.
C22_SpanKindNamesRealColumn ==
  (/\ op = "filter_spans"
   /\ args.span_kind.some
   /\ args.span_kind.v # <<>>
   /\ Upper(args.span_kind.v) \in SixKinds
   /\ "filter_applied" \in DOMAIN response) =>
    /\ response.filter_applied.some
    /\ Contains(response.filter_applied.v,
                <<SPAN_KIND_COLUMN, " = '">> \o Upper(args.span_kind.v) \o <<"'">>)

\* A cell that holds no value.
Missing(cell) == cell.t \in {"nan", "None"}

\* records are the first min(limit, row count) rows of the table, in the
\* table's order, each with every column as a key: a missing cell as None,
\* any other with its value.
FirstRowsOf(records, table, limit) ==
  /\ Len(records) = Min(limit, Len(table.rows))
  /\ \A i \in 1..Len(records) :
       /\ DOMAIN records[i] = Range(table.columns)
       /\ \A c \in Range(table.columns) :
            IF Missing(table.rows[i][c]) THEN records[i][c] = NoneCell
            ELSE records[i][c].v = table.rows[i][c].v /\ ~Missing(records[i][c])

\* C23: _df_to_records(table, limit) returns the empty sequence for an empty
\* table and otherwise exactly min(limit, row count) records for every
\* limit >= 0, the i-th record being the i-th row of the table with every
\* original column as a key; for the copy of the trace tools and the copy of
\* the analysis tools.
C23_FirstRowsInOrder ==
  ret.fn = "_df_to_records" =>
    IF DfEmpty(ret.arg.table)
    THEN ret.val.traces = <<>> /\ ret.val.analysis = <<>>
    ELSE /\ FirstRowsOf(ret.val.traces, ret.arg.table, ret.arg.limit)
         /\ FirstRowsOf(ret.val.analysis, ret.arg.table, ret.arg.limit)

\* C23 witness: a table of two different rows cut to its first row.
C23_Witness ==
  /\ ret.fn = "_df_to_records"
  /\ Len(ret.arg.table.rows) = 2
  /\ ret.arg.table.rows[1] # ret.arg.table.rows[2]
  /\ ret.arg.limit = 1
  /\ Len(ret.val.traces) = 1
  /\ Len(ret.val.analysis) = 1

\* The row records of a response, under the key the tool reports them with.
RowRecords ==
  CASE op = "export_traces" /\ "traces" \in DOMAIN response -> response.traces
    [] op \in {"get_trace", "filter_spans"} /\ "spans" \in DOMAIN response -> response.spans
    [] op = "analyze_errors" /\ "sample_errors" \in DOMAIN response -> response.sample_errors
    [] OTHER -> <<>>

\* The scalar kinds JSON has: null, a plain float, a string.
JsonScalars == {"None", "float", "str"}

\* C24: every cell value in the row records returned by export_traces,
\* get_trace, filter_spans and analyze_errors is JSON-serializable: no
\* library-specific numeric, not-a-number or timestamp value survives to the
\* output.
C24_RecordsJsonSerializable ==
  \A i \in 1..Len(RowRecords) :
    \A c \in DOMAIN RowRecords[i] : RowRecords[i][c].t \in JsonScalars


\* C25: an ArizeRestClient constructed with a space_id stores it and sends it
\* as space_id in the create_dataset payload; constructed without one, its
\* space_id is None and the payload has no space_id key; description and
\* examples are in the payload only when supplied, and name always is.
C25_SpaceIdInPayload ==
  ret.fn = "ArizeRestClient.create_dataset" =>
    LET kw == ret.arg.kwargs
        c == ret.val.client
        p == ret.val.payload
    IN
    /\ c.ok
    /\ "space_id" \in DOMAIN c.val
    /\ IF "space_id" \in DOMAIN kw
       THEN /\ c.val["space_id"] = Some(kw["space_id"])
            /\ "space_id" \in DOMAIN p
            /\ p["space_id"] = kw["space_id"]
       ELSE /\ c.val["space_id"] = None
            /\ "space_id" \notin DOMAIN p
    /\ "name" \in DOMAIN p
    /\ p["name"] = ret.arg.name
    /\ "description" \in DOMAIN p =>
         ret.arg.description.some /\ p["description"] = ret.arg.description.v
    /\ "examples" \in DOMAIN p =>
         ret.arg.examples.some /\ p["examples"] = ret.arg.examples.v

\* C26: under every interleaving of the row tasks of one run_experiment
\* invocation, each row's prompt and output are what that row alone gives:
\* the messages sent for a row, and in passthrough mode its output, are
\* formed from the template, the configuration and that row's own example,
\* and a row that has not started or not finished has nothing written.
C26_RowsIndependent ==
  \A i \in DOMAIN task :
    LET own == FormatPrompt(args.prompt_template, examples[i]) IN
    /\ task[i] = "pending" => sent[i] = <<>> /\ outputs[i] = NoOutput
    /\ task[i] = "inflight" => outputs[i] = NoOutput
    /\ (task[i] # "pending" /\ ~args.passthrough) =>
         sent[i] = TaskMessages(args.system_prompt, own)
    /\ (task[i] # "pending" /\ args.passthrough) =>
         sent[i] = <<>> /\ outputs[i] = TaskOutput(own)

\* Two rows with different examples are in flight at once.
C26_Witness ==
  \E i \in DOMAIN task, j \in DOMAIN task :
    /\ i < j
    /\ task[i] = "inflight" /\ task[j] = "inflight"
    /\ examples[i] # examples[j]
    /\ sent[i] # sent[j]

\* C27: _setup_tools initializes at most once: once it has run, successfully
\* or not, _initialized is true, and from then on no step registers a tool,
\* reads the configuration again or changes _init_error; a failed
\* initialization is not retried.
C27_SetupOnce ==
  [][/\ boot'.ran => initialized'
     /\ initialized =>
          /\ initialized'
          /\ init_error' = init_error
          /\ registered' = registered
          /\ boot' = boot]_vars

\* An initialization that failed is held: the flag is set, the message is
\* kept and only the error tool is registered, while a tool call is served.
C27_Witness ==
  /\ initialized
  /\ boot.ran
  /\ init_error.some
  /\ registered = {"get_status"}
  /\ op = "get_status"

\* C28: the output of _format_prompt is the simultaneous substitution on the
\* original template: the template's segments in order, each placeholder
\* replaced by its value and that value never scanned again.
C28_SimultaneousSubstitution ==
  ret.fn = "_format_prompt" =>
    LET segs == Segments(ret.arg.template, LookupTable(ret.arg.example)) IN
    ret.val = Join([i \in 1..Len(segs) |-> segs[i].text], <<>>)

\* The rows of the exported table that are known to be spans of the
\* requested kind: none when the table has no span-kind column.
RowsOfKind ==
  IF HasColumn(Exported, SPAN_KIND_COLUMN)
  THEN SelectRows(Exported.rows, SPAN_KIND_COLUMN, Upper(args.span_kind.v))
  ELSE <<>>

\* C29: when analyze_latency is called with a valid span_kind and returns
\* latency_stats, the spans counted and the latency values in the statistics
\* are those of spans of that kind and no others, whatever columns the
\* exported table has.
C29_StatsOnlyOfKind ==
  (/\ op = "analyze_latency"
   /\ raised = NoException
   /\ Truthy(args.span_kind)
   /\ "latency_stats" \in DOMAIN response) =>
    /\ response.span_count = Len(RowsOfKind)
    /\ response.latency_stats = LatencyStats(DropNa(RowsOfKind, "latency_ms"))

\* C30: get_status, registered only when initialization failed, reports
\* status "error" whatever exception caused the failure, one with an empty
\* message included; it never reports "ok".
C30_FailedInitNeverOk ==
  (op = "get_status" /\ "get_status" \in registered) =>
    /\ init_error.some
    /\ response.status = "error"
====
